---- MODULE Spec2Model ----
(***************************************************************************)
(* Verification model of the TrustyReader core: the sliding-window XML     *)
(* event reader (libs/embedded_xml), the CSS cascade (core/container/css), *)
(* the ZIP directory reader and entry streams (libs/embedded_zip), the     *)
(* text layout engine (core/layout) and the paginator of the reader        *)
(* activity (core/activities/reader).                                      *)
(*                                                                         *)
(* Each subsystem has its own variables, its own initial predicate and its *)
(* own specification; the variables of the other subsystems are parked.    *)
(***************************************************************************)
EXTENDS Integers, Sequences, FiniteSets, TLC

VARIABLES
    \* ---- embedded_xml ----
    toks,       \* the document, as the sequence of lexical tokens it was written from
    rd,         \* the Reader under test: buffer, pos, end, remaining, self_closing
    ref,        \* a Reader over the same document whose buffer holds all of it
    last,       \* what the last next_event call on rd returned
    lastRef,    \* what the last next_event call on ref returned
    prevEv,     \* what the call before the last one on rd returned
    stack,      \* element_stack of tests.rs walk
    badPop,     \* walk popped a name different from the EndElement's (or popped nothing)
    xstatus,    \* "running", "eof" (EndOfFile seen), "err" (Err returned), "panic"
    chunk,      \* the most bytes one read call of the source returns
    wlast,      \* the last call made on rd directly: the operation, its argument,
                \* rd before the call, and the error it returned ("Ok" for none)
    \* ---- css ----
    rules,      \* Stylesheet.rules: the (Selector, Rule) pairs in source order
    query,      \* the (element, id, classes) of the last get call
    cascade,    \* the Rule the last get call returned
    radd,       \* the last sum of two rules: the operands and the Rule returned
    \* ---- embedded_zip ----
    zar,        \* the archive the source holds
    zpos,       \* the position of the source
    zentries,   \* the entries parse_zip returned
    zerr,       \* "Ok", or the error parse_zip or ZipEntryReader::new returned
    zopen,      \* index in zentries of the entry the reader was made for
    zrd,        \* the ZipEntryReader
    zout,       \* the bytes its read calls returned so far, as ranges
    zlast,      \* the last read call: length of out_buf, Ok(n) or Err(err)
    zreads,     \* read calls made
    zstatus,    \* "fresh", "parsed", "open", "failed"
    \* ---- layout ----
    lopts,      \* Options: width, space_width, dash_width
    lalign,     \* the Alignment
    lindent,    \* the first-line indent
    lruns,      \* the runs
    lbuild,     \* "checked" or "wrapping": what the build does on integer overflow
    llines,     \* the lines layout_text returned
    lcall,      \* the last call of justify: the room, the words and the words returned
    lstatus,    \* "ready", "done", "panic"
    \* ---- reader ----
    book,           \* ReaderActivity.book
    chapter_idx,    \* ReaderActivity.chapter_idx
    chapter,        \* ReaderActivity.chapter
    progress,       \* ReaderActivity.progress: the Page, start and end
    show_settings,  \* ReaderActivity.show_settings
    font_size,      \* ReaderActivity.font_size
    display_size,   \* the Size of the display buffers, as their rotation makes it
    drawn,          \* draw has computed progress.end from the present start
    backs,          \* prev_page calls made
    plast,          \* the reader as the last next_page call found it
    pstatus,        \* "parked", "running", "panic"
    \* ---- framebuffer ----
    rotation,       \* DisplayBuffers.rotation
    fwrites,        \* the writes to the active buffer the last draw_glyph call made
    fcall,          \* the last draw_glyph call
    fstatus,        \* "parked", "ready", "drawn"
    \* ---- epub spine: the body parser ----
    bsheets,        \* the inline stylesheet of the chapter and the external one (an Option)
    bp,             \* the BodyParser
    bopen,          \* the start elements not yet ended, each with its resolved style
    bdoc,           \* the events of the document when it is a written one, <<>> when they are chosen freely
    bat,            \* the events parse_body has taken
    blast,          \* the last event parse_body took, with the style it resolved
    bsrc,           \* the character data of the document: of the paragraph being
                    \* collected (now) and of each paragraph pushed (done)
    bstatus,        \* "parked", "running", "done"
    \* ---- epub ncx: the nav map ----
    nin,            \* the nav map as it is written
    ndoc,           \* the events parse_nav_map has not taken yet
    np,             \* the locals of parse_nav_map
    nstatus         \* "parked", "running", "done", "InvalidData", "panic"

xmlVars == <<toks, rd, ref, last, lastRef, prevEv, stack, badPop, xstatus, chunk, wlast>>
cssVars == <<rules, query, cascade, radd>>

zipVars == <<zar, zpos, zentries, zerr, zopen, zrd, zout, zlast, zreads, zstatus>>

layoutVars == <<lopts, lalign, lindent, lruns, lbuild, llines, lcall, lstatus>>

readerVars == <<book, chapter_idx, chapter, progress, show_settings, font_size, display_size,
                drawn, backs, plast, pstatus>>

fbVars == <<rotation, fwrites, fcall, fstatus>>

bodyVars == <<bsheets, bp, bopen, bdoc, bat, blast, bsrc, bstatus>>

navVars == <<nin, ndoc, np, nstatus>>

vars == <<xmlVars, cssVars, zipVars, layoutVars, readerVars, fbVars, bodyVars, navVars>>

NotXml == <<cssVars, zipVars, layoutVars, readerVars, fbVars, bodyVars, navVars>>
NotCss == <<xmlVars, zipVars, layoutVars, readerVars, fbVars, bodyVars, navVars>>
NotZip == <<xmlVars, cssVars, layoutVars, readerVars, fbVars, bodyVars, navVars>>
NotLayout == <<xmlVars, cssVars, zipVars, readerVars, fbVars, bodyVars, navVars>>
NotReader == <<xmlVars, cssVars, zipVars, layoutVars, fbVars, bodyVars, navVars>>

(* ------------------------------ helpers -------------------------------- *)

Min(S) == CHOOSE x \in S : \A y \in S : x <= y
Max(S) == CHOOSE x \in S : \A y \in S : x >= y

RECURSIVE Flat(_)
Flat(ss) == IF ss = <<>> THEN <<>> ELSE Head(ss) \o Flat(Tail(ss))

\* All sequences over S of length 0..n
SeqsUpTo(S, n) == UNION {[1..k -> S] : k \in 0..n}

(* ======================================================================= *)
(*                       embedded_xml: documents                           *)
(* ======================================================================= *)

MaxTokens == 3      \* tokens per document
MinCap == 4         \* smallest buffer capacity tried
MaxCap == 8         \* largest buffer capacity tried

TokenKinds == {"open", "close", "selfclose", "text", "ws", "comment", "cdata", "pi", "dtd"}

\* The bytes of one token, one single-character string per byte.
TokenBytes(k) ==
    CASE k = "open"      -> <<"<", "a", ">">>
      [] k = "close"     -> <<"<", "/", "a", ">">>
      [] k = "selfclose" -> <<"<", "b", "/", ">">>
      [] k = "text"      -> <<"t", "t">>
      [] k = "ws"        -> <<" ">>
      [] k = "comment"   -> <<"<", "!", "-", "-", "c", "-", "-", ">">>
      [] k = "cdata"     -> <<"<", "!", "[", "C", "D", "A", "T", "A", "[", "d", "]", "]", ">">>
      [] k = "pi"        -> <<"<", "?", "p", "?", ">">>
      [] k = "dtd"       -> <<"<", "!", "D", ">">>

doc == Flat([i \in 1..Len(toks) |-> TokenBytes(toks[i])])

(* ======================================================================= *)
(*                 embedded_xml: the sliding-window Reader                 *)
(* ======================================================================= *)

\* ByteSource::read on a slice of `want` bytes when `left` bytes remain in the
\* source: the slice source of the tests fills as much as it can (chunk is
\* no smaller than the slice); another source may return fewer bytes, at most
\* chunk a call.
Read_whole(want, left) == Min({left, chunk})
Read(want, left) == Min({want, left, chunk})

\* Reader::new_with_read over a buffer of `size` bytes.
new_with_read(size) ==
    LET total == Len(doc)
        n == Read(size, total)
    IN [buffer |-> [i \in 1..size |-> IF i <= n THEN doc[i] ELSE "_"],
        pos |-> 0, end |-> n, remaining |-> total - n, self_closing |-> <<>>]

\* Reader::buffer: the valid window [pos, end).
buffer(r) == SubSeq(r.buffer, r.pos + 1, r.end)

\* memchr::memmem::find: offset of the first occurrence, -1 for None.
find(hay, needle) ==
    LET hits == {i \in 0..(Len(hay) - Len(needle)) :
                    SubSeq(hay, i + 1, i + Len(needle)) = needle}
    IN IF hits = {} THEN -1 ELSE Min(hits)

\* find_span: <<start, end>> with end = -1 when only the start needle is found,
\* <<-1, -1>> for None.
find_span(buf, n_start, n_end) ==
    LET Tail2(start, e) == <<start, IF e = -1 THEN -1 ELSE e + start>>
        From(s) == IF s = -1 THEN <<-1, -1>>
                   ELSE Tail2(s + Len(n_start),
                              find(SubSeq(buf, s + Len(n_start) + 1, Len(buf)), n_end))
    IN From(find(buf, n_start))

IsAsciiWs(b) == b \in {" "}

RECURSIVE TrimStart(_)
TrimStart(s) == IF s # <<>> /\ IsAsciiWs(Head(s)) THEN TrimStart(Tail(s)) ELSE s

RECURSIVE TrimEnd(_)
TrimEnd(s) ==
    IF s # <<>> /\ IsAsciiWs(s[Len(s)]) THEN TrimEnd(SubSeq(s, 1, Len(s) - 1)) ELSE s

\* <[u8]>::trim_ascii
trim_ascii(s) == TrimEnd(TrimStart(s))

\* The bytes of s before its first whitespace byte.
UpToWs(s) ==
    LET w == {i \in 1..Len(s) : IsAsciiWs(s[i])}
    IN IF w = {} THEN s ELSE SubSeq(s, 1, Min(w) - 1)

\* Reader::advance.  err is "Ok", "Eof" or "Panic" (a failed assert!).
advance(r, offset) ==
    IF r.remaining = 0 THEN [r |-> r, err |-> "Eof"]
    ELSE IF offset > r.end \/ offset > Len(r.buffer) THEN [r |-> r, err |-> "Panic"]
    ELSE
      LET cap == Len(r.buffer)
          moved == [i \in 1..cap |->
                      IF i + offset <= r.end THEN r.buffer[i + offset] ELSE r.buffer[i]]
          data_start == cap - offset
          read_bytes == Read(cap - data_start, r.remaining)
          srcpos == Len(doc) - r.remaining
          filled == [i \in 1..cap |->
                      IF i > data_start /\ i <= data_start + read_bytes
                      THEN doc[srcpos + (i - data_start)] ELSE moved[i]]
      IN [r |-> [r EXCEPT !.buffer = filled, !.pos = 0,
                          !.end = (r.end - offset) + read_bytes,
                          !.remaining = r.remaining - read_bytes],
          err |-> "Ok"]

\* Reader::ensure
ensure(r, size) ==
    LET available == Len(buffer(r))
    IN IF available >= size THEN [r |-> r, err |-> "Ok"]
       ELSE IF available + r.remaining < size THEN [r |-> r, err |-> "Eof"]
       ELSE advance(r, r.pos)

\* Reader::try_find
try_find(r, n_start, n_end) ==
    LET Fail(r1, e) == [r |-> r1, err |-> e, start |-> 0, end |-> 0]
        \* (Some(start), None): the block is moved to the front of the buffer
        EndOnly(r1, e) == IF e = -1 THEN Fail(r1, "Eof")
                          ELSE [r |-> r1, err |-> "Ok", start |-> 0, end |-> e]
        StartFound(a) == IF a.err # "Ok" THEN Fail(a.r, a.err)
                         ELSE EndOnly(a.r, find(buffer(a.r), n_end))
        \* None: the whole buffer is dropped and refilled
        Both(r1, sp2) == IF sp2[1] = -1 \/ sp2[2] = -1 THEN Fail(r1, "Eof")
                         ELSE [r |-> r1, err |-> "Ok", start |-> sp2[1], end |-> sp2[2]]
        NotFound(a) == IF a.err # "Ok" THEN Fail(a.r, a.err)
                       ELSE Both(a.r, find_span(buffer(a.r), n_start, n_end))
        Span(sp) ==
            IF sp[1] # -1 /\ sp[2] # -1
            THEN [r |-> r, err |-> "Ok", start |-> sp[1], end |-> sp[2]]
            ELSE IF sp[1] # -1 THEN StartFound(advance(r, r.pos + sp[1]))
            ELSE NotFound(advance(r, Len(r.buffer)))
    IN Span(find_span(buffer(r), n_start, n_end))

\* Reader::try_find_start; the variant drops the window it has searched when
\* the second search fails.
try_find_start_consuming(r, n_start) ==
    LET Second(r1, p2) == IF p2 = -1 THEN [r |-> [r1 EXCEPT !.pos = r1.end], err |-> "Eof", pos |-> 0]
                          ELSE [r |-> r1, err |-> "Ok", pos |-> p2]
        Refilled(a) == IF a.err # "Ok" THEN [r |-> a.r, err |-> a.err, pos |-> 0]
                       ELSE Second(a.r, find(buffer(a.r), n_start))
        First(p) == IF p # -1 THEN [r |-> r, err |-> "Ok", pos |-> p]
                    ELSE Refilled(advance(r, r.pos))
    IN First(find(buffer(r), n_start))
try_find_start(r, n_start) ==
    LET Second(r1, p2) == IF p2 = -1 THEN [r |-> r1, err |-> "Eof", pos |-> 0]
                          ELSE [r |-> r1, err |-> "Ok", pos |-> p2]
        Refilled(a) == IF a.err # "Ok" THEN [r |-> a.r, err |-> a.err, pos |-> 0]
                       ELSE Second(a.r, find(buffer(a.r), n_start))
        First(p) == IF p # -1 THEN [r |-> r, err |-> "Ok", pos |-> p]
                    ELSE Refilled(advance(r, r.pos))
    IN First(find(buffer(r), n_start))

(* ======================================================================= *)
(*                     embedded_xml: Reader::next_event                    *)
(* ======================================================================= *)

\* A returned value: an Event, or ty = "Err" (name = the error) or "Panic".
Ev(ty, name, block) == [ty |-> ty, name |-> name, block |-> block]
EndOfFile == Ev("EndOfFile", <<>>, <<>>)
NoEvent == Ev("None", <<>>, <<>>)
Err(e) == Ev("Err", <<e>>, <<>>)
Panic == Ev("Panic", <<>>, <<>>)
Failure(e) == IF e = "Panic" THEN Panic ELSE Err(e)

\* The match on (b[1], b[2]): <<type, n_start, n_end>>.
BlockType(b1, b2) ==
    CASE b1 = "!" /\ b2 = "[" -> <<"CDATA", <<"<", "!", "[", "C", "D", "A", "T", "A", "[">>,
                                   <<"]", "]", ">">> >>
      [] b1 = "!" /\ b2 = "-" -> <<"Comment", <<"<", "!", "-", "-">>, <<"-", "-", ">">> >>
      [] b1 = "!" /\ b2 \notin {"[", "-"} -> <<"Dtd", <<"<", "!">>, <<">">> >>
      [] b1 = "?" -> <<"ProcessingInstruction", <<"<", "?">>, <<"?", ">">> >>
      [] b1 = "/" -> <<"EndElement", <<"<", "/">>, <<">">> >>
      [] OTHER -> <<"StartElement", <<"<">>, <<">">> >>

\* Reader::name_and_attrs: the name is the block up to its first whitespace.
name_and_attrs(block) == UpToWs(block)

\* The tail of next_event, from the match on the block type on: r has at
\* least three bytes in its window, the first of them '<'.
ParseBlock(r) ==
    LET Emit(r1, ty, block, adv, sc) ==
            [r |-> [r1 EXCEPT !.pos = r1.pos + adv, !.self_closing = sc],
             ev |-> Ev(ty,
                       IF ty \in {"ProcessingInstruction", "StartElement"}
                       THEN name_and_attrs(block)
                       ELSE IF ty = "EndElement" THEN block ELSE <<>>,
                       block)]
        Cut(r1, ty, lo, hi, adv, selfcl) ==
            Emit(r1, ty, trim_ascii(SubSeq(r1.buffer, lo + 1, hi)), adv,
                 IF selfcl THEN <<lo, hi>> ELSE <<>>)
        Block(r1, ty, start, end, tail, selfcl) ==
            Cut(r1, ty, r1.pos + start,
                IF selfcl THEN r1.pos + end - 1 ELSE r1.pos + end, end + tail, selfcl)
        Found(bt, tf) ==
            IF tf.err # "Ok" THEN [r |-> tf.r, ev |-> Failure(tf.err)]
            ELSE IF bt[1] = "StartElement" /\ (tf.end = 0 \/ tf.end > Len(buffer(tf.r)))
            THEN [r |-> tf.r, ev |-> Panic]
            ELSE Block(tf.r, bt[1], tf.start, tf.end, Len(bt[3]),
                       bt[1] = "StartElement" /\ buffer(tf.r)[tf.end] = "/")
        Typed(bt) == Found(bt, try_find(r, bt[2], bt[3]))
    IN Typed(BlockType(buffer(r)[2], buffer(r)[3]))

\* Reader::next_event
next_event(r) ==
    IF r.pos = r.end /\ r.remaining = 0 THEN [r |-> r, ev |-> EndOfFile]
    ELSE IF r.self_closing # <<>> THEN
      LET block == trim_ascii(SubSeq(r.buffer, r.self_closing[1] + 1, r.self_closing[2]))
          name == UpToWs(block)
          r1 == [r EXCEPT !.self_closing = <<>>]
      IN IF name = <<>> THEN [r |-> r1, ev |-> Err("InvalidState")]
         ELSE [r |-> r1, ev |-> Ev("EndElement", name, <<>>)]
    ELSE
      LET Ensured(en) ==
              IF en.err = "Eof" THEN [r |-> en.r, ev |-> EndOfFile]
              ELSE IF en.err # "Ok" THEN [r |-> en.r, ev |-> Failure(en.err)]
              ELSE IF Len(buffer(en.r)) < 3 THEN [r |-> en.r, ev |-> Panic]
              ELSE ParseBlock(en.r)
          Content(r2, content) ==
              IF trim_ascii(content) # <<>>
              THEN [r |-> r2, ev |-> Ev("Text", <<>>, content)]
              ELSE Ensured(ensure(r2, 3))
          Start(fs) ==
              IF fs.err = "Eof" THEN [r |-> fs.r, ev |-> EndOfFile]
              ELSE IF fs.err # "Ok" THEN [r |-> fs.r, ev |-> Failure(fs.err)]
              ELSE Content([fs.r EXCEPT !.pos = fs.r.pos + fs.pos],
                           SubSeq(buffer(fs.r), 1, fs.pos))
      IN Start(try_find_start(r, <<"<">>))

(* ---------------- the walk of tests.rs over both readers ---------------- *)

Caps == MinCap..MaxCap

XmlStart ==
    /\ toks \in SeqsUpTo(TokenKinds, MaxTokens)
    /\ chunk = Len(doc)
    /\ \E cap \in Caps : rd = new_with_read(cap)
    /\ ref = new_with_read(Len(doc))
    /\ last = NoEvent
    /\ lastRef = NoEvent
    /\ prevEv = NoEvent
    /\ stack = <<>>
    /\ badPop = FALSE
    /\ xstatus = "running"
    /\ wlast = [op |-> "none"]

\* One iteration of the loop of walk: a next_event call on each reader; the
\* element stack follows the events of rd.  Calls go on after EndOfFile and
\* stop at the first error.
XmlNextEvent ==
    /\ xstatus \in {"running", "eof"}
    /\ LET Walk(res, rres, ev) ==
          /\ rd' = res.r
          /\ ref' = rres.r
          /\ last' = ev
          /\ lastRef' = rres.ev
          /\ prevEv' = last
          /\ stack' = CASE ev.ty = "StartElement" -> Append(stack, ev.name)
                        [] ev.ty = "EndElement" /\ stack # <<>> ->
                               SubSeq(stack, 1, Len(stack) - 1)
                        [] OTHER -> stack
          /\ badPop' = (badPop \/ (ev.ty = "EndElement"
                                     /\ (stack = <<>> \/ stack[Len(stack)] # ev.name)))
          /\ xstatus' = CASE ev.ty = "EndOfFile" -> "eof"
                          [] ev.ty = "Err" -> "err"
                          [] ev.ty = "Panic" -> "panic"
                          [] OTHER -> xstatus
       IN Walk(next_event(rd), next_event(ref), next_event(rd).ev)
    /\ UNCHANGED <<toks, chunk, wlast, NotXml>>

(* ------------- calls on the reader, as reader.rs tests make ------------- *)

MaxCalls == 3       \* calls made on the reader directly

Chunks == {1, 2, MaxCap}

\* Needles next_event looks for.
Needles ==
    {<< <<"<">>, <<">">> >>, << <<"<", "/">>, <<">">> >>,
     << <<"<", "!", "-", "-">>, <<"-", "-", ">">> >>}

\* Reader::new over a source that returns at most chunk bytes a call.
WinStart ==
    /\ toks \in SeqsUpTo({"open", "close", "text", "ws", "comment"}, MaxTokens)
    /\ chunk \in Chunks
    /\ \E cap \in Caps : rd = new_with_read(cap)
    /\ ref = <<>>
    /\ last = NoEvent
    /\ lastRef = NoEvent
    /\ prevEv = NoEvent
    /\ stack = <<>>
    /\ badPop = FALSE
    /\ xstatus = "running"
    /\ wlast = [op |-> "none", calls |-> 0]

\* What a call leaves behind.
WinCalled(op, arg, r, err) ==
    /\ rd' = r
    /\ wlast' = [op |-> op, arg |-> arg, before |-> rd, err |-> err,
                 calls |-> wlast.calls + 1]
    /\ xstatus' = IF err = "Panic" THEN "panic" ELSE xstatus
    /\ UNCHANGED <<toks, ref, last, lastRef, prevEv, stack, badPop, chunk, NotXml>>

\* Calls go on after an error, not after a panic.
WinAdvance ==
    /\ xstatus = "running" /\ wlast.calls < MaxCalls
    /\ \E offset \in {0, 1, rd.pos, rd.end, Len(rd.buffer)} :
          LET Done(a) == WinCalled("advance", offset, a.r, a.err)
          IN Done(advance(rd, offset))

WinEnsure ==
    /\ xstatus = "running" /\ wlast.calls < MaxCalls
    /\ \E size \in {3, Len(rd.buffer)} :
          LET Done(a) == WinCalled("ensure", size, a.r, a.err)
          IN Done(ensure(rd, size))

WinTryFind ==
    /\ xstatus = "running" /\ wlast.calls < MaxCalls
    /\ \E n \in Needles :
          LET Done(a) == WinCalled("try_find", n, a.r, a.err)
          IN Done(try_find(rd, n[1], n[2]))

WinTryFindStart ==
    /\ xstatus = "running" /\ wlast.calls < MaxCalls
    /\ LET Done(a) == WinCalled("try_find_start", <<"<">>, a.r, a.err)
       IN Done(try_find_start(rd, <<"<">>))

WinNextEvent ==
    /\ xstatus = "running" /\ wlast.calls < MaxCalls
    /\ LET Done(a) ==
              WinCalled("next_event", <<>>, a.r,
                        CASE a.ev.ty = "Panic" -> "Panic"
                          [] a.ev.ty = "Err" -> a.ev.name[1]
                          [] OTHER -> "Ok")
       IN Done(next_event(rd))

\* The walk with a buffer of any capacity up to MaxCap, none included.
AnyCapStart ==
    /\ toks \in SeqsUpTo(TokenKinds, MaxTokens)
    /\ chunk = Len(doc)
    /\ \E cap \in 0..MaxCap : rd = new_with_read(cap)
    /\ ref = new_with_read(Len(doc))
    /\ last = NoEvent
    /\ lastRef = NoEvent
    /\ prevEv = NoEvent
    /\ stack = <<>>
    /\ badPop = FALSE
    /\ xstatus = "running"
    /\ wlast = [op |-> "none"]

XmlParked ==
    /\ toks = <<>> /\ rd = <<>> /\ ref = <<>> /\ last = NoEvent /\ lastRef = NoEvent
    /\ prevEv = NoEvent /\ stack = <<>> /\ badPop = FALSE /\ xstatus = "parked"
    /\ chunk = 1 /\ wlast = [op |-> "none"]

(* ---------------------- embedded_xml: the claims ------------------------ *)

IsTextTok(k) == k \in {"text", "ws"}

\* Bytes of the opener of a tag token (the n_start of its block type).
OpenerLen(k) ==
    CASE k = "comment" -> 4
      [] k = "cdata" -> 9
      [] k \in {"close", "pi", "dtd"} -> 2
      [] OTHER -> 1

\* Bytes of the text run that starts at token i.
RECURSIVE RunBytes(_, _)
RunBytes(ts, i) ==
    IF i > Len(ts) \/ ~IsTextTok(ts[i]) THEN 0
    ELSE Len(TokenBytes(ts[i])) + RunBytes(ts, i + 1)

\* Every event of the document fits in a window of cap bytes: a tag's body
\* plus its terminator, a text run plus the '<' that follows it.
EventsFit(ts, cap) ==
    /\ cap >= 3
    /\ \A i \in 1..Len(ts) :
         IF IsTextTok(ts[i])
         THEN (i = 1 \/ ~IsTextTok(ts[i - 1])) => RunBytes(ts, i) + 1 <= cap
         ELSE Len(TokenBytes(ts[i])) - OpenerLen(ts[i]) <= cap

\* Properly nested elements: every close tag closes an open one, none is left open.
RECURSIVE Depth(_, _)
Depth(ts, d) ==
    IF ts = <<>> THEN d
    ELSE IF d < 0 THEN -1
    ELSE Depth(Tail(ts), CASE Head(ts) = "open" -> d + 1
                           [] Head(ts) = "close" -> d - 1
                           [] OTHER -> d)

WellNested(ts) == Depth(ts, 0) = 0

\* The bytes rd has not returned yet: its window, then what the source still holds.
Unreturned(r) == buffer(r) \o SubSeq(doc, Len(doc) - r.remaining + 1, Len(doc))

\* C1: for every properly nested document (self-closing tags anywhere, also
\* as its last bytes) the walk never pops a name other than the one on top
\* of the stack, and the stack is empty when EndOfFile is returned.
C1_BalancedWalk ==
    WellNested(toks) => (~badPop /\ (xstatus = "eof" => stack = <<>>))

\* C2: when next_event has returned the StartElement of a self-closing tag,
\* the very next call returns an EndElement with the same name.
C2_SelfClosingEnds ==
    [][(last.ty = "StartElement" /\ rd.self_closing # <<>>)
          => (last'.ty = "EndElement" /\ last'.name = last.name)]_vars

\* C3: when every event fits in the window, each call returns the same on
\* the small-buffer reader as on the reader that holds the whole document.
C3_CapacityIndependent ==
    EventsFit(toks, Len(rd.buffer)) => last = lastRef

\* C4: when every event fits in the window, EndOfFile is returned only when
\* nothing but whitespace is left in the window and in the source.
C4_EofOnlyAtExhaustion ==
    (EventsFit(toks, Len(rd.buffer)) /\ last.ty = "EndOfFile")
        => trim_ascii(Unreturned(rd)) = <<>>

\* C15: after construction and after every call of advance, ensure,
\* try_find, try_find_start and next_event that returns, with or without an
\* error, 0 <= pos <= end <= capacity of the buffer.
C15_WindowIndices ==
    xstatus = "running" =>
        /\ 0 <= rd.pos
        /\ rd.pos <= rd.end
        /\ rd.end <= Len(rd.buffer)

C15_Witness ==
    /\ wlast.op = "try_find" /\ wlast.err = "Eof"
    /\ rd # wlast.before

\* C16: after a call advance(offset) that succeeds, the window holds the
\* bytes that were at [offset, end) before the call and then the bytes of
\* the source that were next to be read, as many as remaining has dropped
\* by; pos is 0.
C16_AdvanceKeepsStream ==
    (wlast.op = "advance" /\ wlast.err = "Ok") =>
        /\ rd.pos = 0
        /\ rd.remaining <= wlast.before.remaining
        /\ buffer(rd) =
             SubSeq(wlast.before.buffer, wlast.arg + 1, wlast.before.end)
               \o SubSeq(doc, Len(doc) - wlast.before.remaining + 1, Len(doc) - rd.remaining)

\* C17: a next_event call that follows one that returned EndOfFile returns
\* EndOfFile.
C17_EndOfFileIdempotent == prevEv.ty = "EndOfFile" => last.ty = "EndOfFile"

C17_Witness ==
    /\ prevEv.ty = "EndOfFile" /\ last.ty = "EndOfFile"
    /\ rd.remaining > 0

\* C18: for a document of text without any '<', the first next_event call
\* returns the error Eof.
C18_TextOnlyIsEof ==
    (/\ toks # <<>>
     /\ \A i \in 1..Len(toks) : IsTextTok(toks[i])
     /\ \E i \in 1..Len(toks) : toks[i] = "text"
     /\ last # NoEvent /\ prevEv = NoEvent) => last = Err("Eof")

\* Bytes of the stream that r is past: those read from the source that are
\* no longer in the window.
StreamPos(r) == (Len(doc) - r.remaining) - (r.end - r.pos)

\* C34: for every document and every buffer capacity each next_event call
\* returns (it does not panic); every event it returns, other than the
\* EndElement made up for a self-closing tag, leaves the reader at least one
\* byte further in the stream; and the calls reach EndOfFile or an error.
C34_EveryCallReturns ==
    /\ [](xstatus # "panic")
    /\ [][(last'.ty \notin {"EndOfFile", "Err", "Panic"} /\ rd.self_closing = <<>>)
             => StreamPos(rd') > StreamPos(rd)]_vars
    /\ <>(xstatus \in {"eof", "err"})

\* The text run at the place r has reached is longer than the window: the
\* next bytes of the stream, as many as the buffer holds, have no '<' among
\* them, and the source has bytes that are not in the window.
LongTextRun(r) ==
    /\ r.remaining > 0
    /\ r.self_closing = <<>>
    /\ Len(Unreturned(r)) > Len(r.buffer)
    /\ find(SubSeq(Unreturned(r), 1, Len(r.buffer)), <<"<">>) = -1

\* C35: a next_event call that meets a text run longer than the window
\* returns an error, not EndOfFile.
C35_LongTextIsError ==
    [][LongTextRun(rd) => last'.ty = "Err"]_vars

(* ======================================================================= *)
(*                     css: Selector, Rule, Stylesheet                     *)
(* ======================================================================= *)

MaxRules == 2       \* rules per stylesheet

\* Option<T>: <<>> is None, <<v>> is Some(v).
None == <<>>
Some(v) == <<v>>

\* Rule::default
Rule_default == [alignment |-> None, italic |-> None, bold |-> None, indent |-> None]

\* Option::or; the variant prefers its second operand.
or_last(a, b) == IF b # None THEN b ELSE a
or(a, b) == IF a # None THEN a ELSE b

\* <Rule as Add>::add
add(self, rhs) ==
    [alignment |-> or(self.alignment, rhs.alignment),
     italic |-> or(self.italic, rhs.italic),
     bold |-> or(self.bold, rhs.bold),
     indent |-> or(self.indent, rhs.indent)]

\* Rule::has_any
has_any(r) == r.alignment # None \/ r.italic # None \/ r.bold # None \/ r.indent # None

\* Selector::matches
matches(sel, element, id, classes) ==
    /\ sel.element # None => sel.element = Some(element)
    /\ sel.id # None => id = sel.id
    /\ \A i \in 1..Len(sel.classes) : \E j \in 1..Len(classes) : classes[j] = sel.classes[i]

\* Selector::specificity: (ids, classes, elements)
specificity(sel) ==
    <<IF sel.id # None THEN 1 ELSE 0, Len(sel.classes), IF sel.element # None THEN 1 ELSE 0>>

\* Ord on the sort key ((u8, u8, u8), usize): lexicographic.
KeyLess(sa, ia, sb, ib) ==
    \/ sa[1] < sb[1]
    \/ sa[1] = sb[1] /\ sa[2] < sb[2]
    \/ sa[1] = sb[1] /\ sa[2] = sb[2] /\ sa[3] < sb[3]
    \/ sa = sb /\ ia < ib

\* matches.sort_by_key(|&(spec, idx, _)| (spec, idx)) over the rule indices in I.
RECURSIVE SortByKey(_, _)
SortByKey(rs, I) ==
    IF I = {} THEN <<>>
    ELSE LET m == CHOOSE i \in I : \A j \in I \ {i} :
                     KeyLess(specificity(rs[i][1]), i, specificity(rs[j][1]), j)
         IN <<m>> \o SortByKey(rs, I \ {m})

\* fold(Rule::default(), |acc, (_, _, rule)| acc + *rule)
RECURSIVE Fold(_, _, _)
Fold(rs, order, acc) ==
    IF order = <<>> THEN acc ELSE Fold(rs, Tail(order), add(acc, rs[Head(order)][2]))

\* Stylesheet::get; classes is the class attribute split at whitespace.
get(rs, element, id, classes) ==
    LET matching == {i \in 1..Len(rs) : matches(rs[i][1], element, id, classes)}
    IN Fold(rs, SortByKey(rs, matching), Rule_default)

(* ------------------------- css: the state machine ----------------------- *)

Sel(e, i, c) == [element |-> e, id |-> i, classes |-> c]

\* The selectors and declaration blocks the stylesheets are written from.
Selectors ==
    {Sel(None, None, <<"c">>), Sel(Some("p"), None, <<>>), Sel(None, Some("x"), <<>>),
     Sel(Some("p"), None, <<"c">>), Sel(Some("p"), Some("x"), <<"c">>)}

Rules ==
    {r \in [alignment : {None}, italic : {None, Some(TRUE)},
            bold : {None, Some(TRUE), Some(FALSE)}, indent : {None}] : has_any(r)}

CssStart ==
    /\ rules \in SeqsUpTo(Selectors \X Rules, MaxRules)
    /\ query = <<>>
    /\ cascade = Rule_default
    /\ radd = [op |-> "none"]

CssParked ==
    rules = <<>> /\ query = <<>> /\ cascade = Rule_default /\ radd = [op |-> "none"]

\* A call of Stylesheet::get.
CssGet ==
    /\ \E element \in {"p", "q"}, id \in {None, Some("x")}, classes \in {<<>>, <<"c">>} :
          /\ query' = <<element, id, classes>>
          /\ cascade' = get(rules, element, id, classes)
    /\ UNCHANGED <<rules, radd, NotCss>>

\* The rules a declaration block can be parsed into, over two values of
\* each property.
AllRules ==
    [alignment : {None, Some("Center"), Some("Justify")}, italic : {None, Some(TRUE), Some(FALSE)},
     bold : {None, Some(TRUE), Some(FALSE)}, indent : {None, Some(0), Some(2)}]

\* Two rules, and nothing else yet.
RuleStart ==
    rules = <<>> /\ query = <<>> /\ cascade = Rule_default /\ radd = [op |-> "none"]

\* One sum of two rules.
RuleAdd ==
    /\ radd.op = "none"
    /\ \E r1 \in AllRules, r2 \in AllRules :
          radd' = [op |-> "add", lhs |-> r1, rhs |-> r2, out |-> add(r1, r2)]
    /\ UNCHANGED <<rules, query, cascade, NotCss>>

(* --------------------------- css: the claims ---------------------------- *)

\* The indices of the rules that match the last query and set property f.
Setting(f) ==
    {i \in 1..Len(rules) :
        matches(rules[i][1], query[1], query[2], query[3]) /\ rules[i][2][f] # None}

\* Specificity a is strictly lower than specificity b.
SpecLess(a, b) == KeyLess(a, 0, b, 0)

\* C5: a property set by several matching rules takes the value of the
\* matching rule with the highest specificity; for `.c { font-weight: bold }`
\* then `p.c#x { font-weight: normal }`, get("p", Some("x"), Some("c")) has
\* bold = Some(false).
C5_HighestSpecificityWins ==
    query # <<>> =>
        \A f \in {"bold", "italic"} : \A i \in Setting(f) :
            (\A j \in Setting(f) \ {i} :
                 SpecLess(specificity(rules[j][1]), specificity(rules[i][1])))
               => cascade[f] = rules[i][2][f]

\* C19: when the rules that match the query and set a property are two rules
\* of the same specificity, the property takes the value of the rule that
\* comes later in the stylesheet.
C19_LaterRuleWins ==
    query # <<>> =>
        \A f \in {"bold", "italic"} : \A i \in Setting(f), j \in Setting(f) :
            (/\ i < j
             /\ Setting(f) = {i, j}
             /\ specificity(rules[i][1]) = specificity(rules[j][1]))
               => cascade[f] = rules[j][2][f]

\* C21: Rule::default() + r = r and r + Rule::default() = r, and each field
\* of r1 + r2 is that of r1 when r1 sets it and that of r2 otherwise.
C21_RuleMonoid ==
    radd.op = "add" =>
        /\ radd.lhs = Rule_default => radd.out = radd.rhs
        /\ radd.rhs = Rule_default => radd.out = radd.lhs
        /\ \A f \in {"alignment", "italic", "bold", "indent"} :
               radd.out[f] = IF radd.lhs[f] # None THEN radd.lhs[f] ELSE radd.rhs[f]

C21_Witness ==
    /\ radd.op = "add"
    /\ radd.lhs.bold = Some(TRUE) /\ radd.rhs.bold = Some(FALSE)
    /\ radd.lhs.alignment = None /\ radd.rhs.alignment = Some("Center")
    /\ radd.out.bold = Some(TRUE) /\ radd.out.alignment = Some("Center")

(* ======================================================================= *)
(*                        embedded_zip: archives                           *)
(* ======================================================================= *)

MaxEntries == 2         \* files per archive
MaxReads == 5           \* read calls per entry stream

EocdWindow == 1024      \* buf of find_end_central_directory
EocdLen == 22           \* size_of::<EndCentralDir>()
CdeLen == 46            \* size_of::<CentralDirEntry>()
LfhLen == 30            \* size_of::<LocalFileHeader>()
InBufLen == 512         \* in_buf of ZipEntryReader
DictSize == 32768       \* the output window of the InflateState

COMPRESSION_STORED == 0
COMPRESSION_DEFLATE == 8

\* One file as an encoder wrote it: its name, method, uncompressed and
\* compressed size, and the lengths of the extra field of its local header
\* and of the extra field and comment of its central-directory record.  The
\* sizes are written in the local header (no data descriptor).
File(name, method, usize, csize, extra, cextra, ccomment) ==
    [name |-> name, method |-> method, usize |-> usize, csize |-> csize,
     extra |-> extra, cextra |-> cextra, ccomment |-> ccomment]

Files ==
    { File(<<"a">>, COMPRESSION_STORED, 3, 3, 0, 0, 0),
      File(<<"b", "b">>, COMPRESSION_STORED, 1500, 1500, 4, 6, 2),
      File(<<"e">>, COMPRESSION_STORED, 0, 0, 0, 0, 0),
      File(<<"c">>, COMPRESSION_DEFLATE, 1500, 600, 0, 0, 0),
      File(<<"d">>, COMPRESSION_DEFLATE, 40000, 530, 2, 0, 0),
      File(<<"r">>, COMPRESSION_DEFLATE, 40000, 3, 0, 0, 0),
      File(<<"z">>, COMPRESSION_DEFLATE, 0, 2, 0, 0, 0) }

\* An archive: its files in central-directory order, the length of the
\* archive comment that follows the end-of-central-directory record, and the
\* number of bytes missing at its end (none as the encoder wrote it).
Archives == [files : SeqsUpTo(Files, MaxEntries), comment : {0, 7, 1002}, cut : {0}]

\* The layout of the archive: local header and data of every file, then the
\* central directory, then the end-of-central-directory record.
RECURSIVE LfhOff(_, _)
LfhOff(ar, i) ==
    IF i <= 1 THEN 0
    ELSE LfhOff(ar, i - 1) + LfhLen + Len(ar.files[i - 1].name) + ar.files[i - 1].extra
           + ar.files[i - 1].csize

DataOff(ar, i) == LfhOff(ar, i) + LfhLen + Len(ar.files[i].name) + ar.files[i].extra

CdStart(ar) == LfhOff(ar, Len(ar.files) + 1)

RECURSIVE CdeOff(_, _)
CdeOff(ar, i) ==
    IF i <= 1 THEN CdStart(ar)
    ELSE CdeOff(ar, i - 1) + CdeLen + Len(ar.files[i - 1].name) + ar.files[i - 1].cextra
           + ar.files[i - 1].ccomment

EocdOff(ar) == CdeOff(ar, Len(ar.files) + 1)

WrittenSize(ar) == EocdOff(ar) + EocdLen + ar.comment

SourceSize(ar) == WrittenSize(ar) - ar.cut

\* Sources that need not be archives: an archive whose comment pushes the
\* end-of-central-directory record out of the last 1024 bytes, and archives
\* cut short by one byte, inside the record, before the record, and to
\* nothing.
Cuts(ar) ==
    {0, ar.comment + 1, ar.comment + 18, ar.comment + EocdLen, WrittenSize(ar)}

Sources ==
    UNION {{[ar EXCEPT !.cut = c] : c \in Cuts(ar)} :
              ar \in [files : SeqsUpTo(Files, MaxEntries),
                      comment : {0, 7, 1002, 1003}, cut : {0}]}

\* The records found at an offset of the source; NotFound where the four bytes
\* there are not the signature asked for (file data and comments hold none).
NotFound == [found |-> FALSE]
NotFb == <<xmlVars, cssVars, zipVars, layoutVars, readerVars, bodyVars, navVars>>
NotBody == <<xmlVars, cssVars, zipVars, layoutVars, readerVars, fbVars, navVars>>
NotNav == <<xmlVars, cssVars, zipVars, layoutVars, readerVars, fbVars, bodyVars>>

EocdAt(ar, off) ==
    IF off = EocdOff(ar)
    THEN [found |-> TRUE, total_num_entries |-> Len(ar.files),
          central_dir_offset |-> CdStart(ar)]
    ELSE NotFound

CdeAt(ar, off) ==
    LET at == {i \in 1..Len(ar.files) : CdeOff(ar, i) = off}
        Rec(i) == [found |-> TRUE, compressed_size |-> ar.files[i].csize,
                   uncompressed_size |-> ar.files[i].usize,
                   filename_len |-> Len(ar.files[i].name),
                   extra_len |-> ar.files[i].cextra,
                   comment_len |-> ar.files[i].ccomment,
                   local_header_offset |-> LfhOff(ar, i)]
    IN IF at = {} THEN NotFound ELSE Rec(Min(at))

LfhAt(ar, off) ==
    LET at == {i \in 1..Len(ar.files) : LfhOff(ar, i) = off}
        Rec(i) == [found |-> TRUE, compression |-> ar.files[i].method,
                   compressed_size |-> ar.files[i].csize,
                   uncompressed_size |-> ar.files[i].usize,
                   filename_len |-> Len(ar.files[i].name),
                   extra_len |-> ar.files[i].extra]
    IN IF at = {} THEN NotFound ELSE Rec(Min(at))

\* The n bytes at an offset read as a name.
NameAt(ar, off, n) ==
    LET at == {i \in 1..Len(ar.files) :
                  CdeOff(ar, i) + CdeLen = off /\ Len(ar.files[i].name) = n}
    IN IF at = {} THEN <<"?">> ELSE ar.files[Min(at)].name

\* The deflate stream that starts at an offset: <<csize, usize>>, <<>> if none.
StreamAt(ar, off) ==
    LET at == {i \in 1..Len(ar.files) :
                  DataOff(ar, i) = off /\ ar.files[i].method = COMPRESSION_DEFLATE}
    IN IF at = {} THEN <<>> ELSE <<ar.files[Min(at)].csize, ar.files[Min(at)].usize>>

(* ----------------------- the seekable byte source ----------------------- *)

\* Seek of the source (std_fs.rs hands it to std::io::Seek): the new
\* position, -1 for the error of a seek before byte 0.
source_seek(ar, pos, from, n) ==
    LET target == CASE from = "Start" -> n
                    [] from = "Current" -> pos + n
                    [] from = "End" -> SourceSize(ar) + n
    IN IF target < 0 THEN -1 ELSE target

\* Read::read of want bytes at pos: the count read (0 at or past the end).
source_read(ar, pos, want) ==
    IF pos >= SourceSize(ar) THEN 0 ELSE Min({want, SourceSize(ar) - pos})

\* read_exact succeeds iff the bytes are there.
source_read_exact(ar, pos, want) == pos + want <= SourceSize(ar)

(* --------------------------- parser.rs ---------------------------------- *)

ZOk(v, pos) == [ok |-> TRUE, val |-> v, pos |-> pos]
ZErr(e, pos) == [ok |-> FALSE, val |-> e, pos |-> pos]

\* find_end_central_directory
find_end_central_directory(ar, pos0) ==
    LET Scan(pos, n) ==
            LET hits == {i \in 0..(n - 5) : EocdAt(ar, pos + i).found}
            IN IF n < 4 THEN ZErr("Panic", pos + n)
               ELSE IF hits = {} THEN ZErr("InvalidData", pos + n)
               ELSE IF Max(hits) + EocdLen > EocdWindow THEN ZErr("Panic", pos + n)
               ELSE ZOk(EocdAt(ar, pos + Max(hits)), pos + n)
        Sought(pos) ==
            IF pos = -1 THEN ZErr("IoError", pos0)
            ELSE Scan(pos, source_read(ar, pos, EocdWindow))
    IN Sought(source_seek(ar, pos0, "End", -EocdWindow))

\* The loop of read_central_directory: left records to go, the source at pos.
RECURSIVE ReadEntries(_, _, _, _)
ReadEntries(ar, pos, left, entries) ==
    IF left = 0 THEN ZOk(entries, pos)
    ELSE IF ~source_read_exact(ar, pos, CdeLen) THEN ZErr("InvalidData", pos)
    ELSE IF ~CdeAt(ar, pos).found THEN ZErr("InvalidSignature", pos + CdeLen)
    ELSE
      LET Named(cde, at) ==
              IF ~source_read_exact(ar, at, cde.filename_len) THEN ZErr("InvalidData", at)
              ELSE ReadEntries(ar,
                       source_seek(ar, source_seek(ar, at + cde.filename_len, "Current", cde.extra_len),
                            "Current", cde.comment_len),
                       left - 1,
                       Append(entries, [name |-> NameAt(ar, at, cde.filename_len),
                                        size |-> cde.uncompressed_size,
                                        offset |-> cde.local_header_offset]))
      IN Named(CdeAt(ar, pos), pos + CdeLen)

\* read_central_directory
read_central_directory(ar, pos, dir) ==
    IF dir.total_num_entries = 0 THEN ZErr("InvalidData", pos)
    ELSE ReadEntries(ar, source_seek(ar, pos, "Start", dir.central_dir_offset),
                     dir.total_num_entries, <<>>)

\* parse_zip
parse_zip(ar, pos) ==
    LET Dir(end_dir) == IF ~end_dir.ok THEN end_dir
                        ELSE read_central_directory(ar, end_dir.pos, end_dir.val)
    IN Dir(find_end_central_directory(ar, pos))

(* ------------------- entry.rs: ZipEntryReader::new ---------------------- *)

NoInflater == [none |-> TRUE]

\* InflateState::new: nothing decoded, nothing waiting in the window.
NewInflateState ==
    [first_call |-> TRUE, has_flushed |-> FALSE, last_status |-> "NeedsMoreInput",
     dict_ofs |-> 0, dict_avail |-> 0,
     stream |-> <<>>,       \* the stream being decoded, once input was given
     from |-> -1,           \* source offset of its first byte
     consumed |-> 0,        \* compressed bytes taken
     produced |-> 0]        \* bytes decoded into the window or the output

\* ZipEntryReader::new
new(ar, pos0, entry) ==
    LET Make(lfh, pos) ==
            IF ~lfh.found THEN ZErr("InvalidSignature", pos0 + LfhLen)
            ELSE IF lfh.compression \notin {COMPRESSION_STORED, COMPRESSION_DEFLATE}
            THEN ZErr("UnsupportedCompression", pos)
            ELSE ZOk([compression |-> lfh.compression,
                      compressed_remaining |-> lfh.compressed_size,
                      uncompressed_remaining |-> lfh.uncompressed_size,
                      inflater |-> IF lfh.compression = COMPRESSION_DEFLATE
                                   THEN NewInflateState ELSE NoInflater,
                      in_buf |-> 0,           \* source offset of in_buf[0]
                      in_buf_start |-> 0,
                      in_buf_end |-> 0], pos)
        Header(at) ==
            IF ~source_read_exact(ar, at, LfhLen) THEN ZErr("InvalidData", at)
            ELSE IF ~LfhAt(ar, at).found THEN Make(NotFound, at)
            ELSE Make(LfhAt(ar, at),
                      source_seek(ar, at + LfhLen, "Current",
                           LfhAt(ar, at).filename_len + LfhAt(ar, at).extra_len))
    IN Header(source_seek(ar, pos0, "Start", entry.offset))

(* ------------- miniz_oxide::inflate::stream, as entry.rs uses it -------- *)

Negative(status) == status \in {"Failed", "FailedCannotMakeProgress"}

\* Bytes that the first k compressed bytes of a stream decode to: every byte
\* stands for usize / csize bytes, the last one for what is left.
Decodes(stream, k) ==
    IF k >= stream[1] THEN stream[2] ELSE Min({k * (stream[2] \div stream[1]), stream[2]})

\* One run of the decompressor over in_len input bytes, found at source
\* offset in_off, into space bytes of output.  Bytes that do not continue
\* the stream fail; without more input to come a stalled run fails as well.
decompress(ar, st, in_off, in_len, space, more_input) ==
    LET stream == IF st.stream # <<>> \/ in_len = 0 THEN st.stream ELSE StreamAt(ar, in_off)
        from == IF st.stream # <<>> \/ in_len = 0 THEN st.from ELSE in_off
        Ret(status, in_bytes, out_bytes) ==
            [status |-> status, in_bytes |-> in_bytes, out_bytes |-> out_bytes,
             st |-> [st EXCEPT !.stream = stream, !.from = from,
                               !.consumed = @ + in_bytes, !.produced = @ + out_bytes]]
        Stalled == IF more_input THEN "NeedsMoreInput" ELSE "FailedCannotMakeProgress"
        Run(k, avail) ==
            IF space < avail
            THEN Ret("HasMoreOutput",
                     Min({j \in st.consumed..k :
                              Decodes(stream, j) > st.produced + space}) - st.consumed,
                     space)
            ELSE IF k = stream[1] THEN Ret("Done", k - st.consumed, avail)
            ELSE Ret(Stalled, k - st.consumed, avail)
        Upto(k) == Run(k, Decodes(stream, k) - st.produced)
    IN IF st.last_status = "Done" THEN Ret("Done", 0, 0)
       ELSE IF in_len > 0 /\ (stream = <<>> \/ in_off # from + st.consumed)
       THEN Ret("Failed", 0, 0)
       ELSE IF stream = <<>> THEN Ret(Stalled, 0, 0)
       ELSE Upto(Min({st.consumed + in_len, stream[1]}))

\* push_dict_out of n bytes (the caller takes n = min(dict_avail, output left)).
push_dict_out(st, n) ==
    [st EXCEPT !.dict_avail = @ - n, !.dict_ofs = (@ + n) % DictSize]

StreamResult(st, bytes_consumed, bytes_written) ==
    [st |-> st, bytes_consumed |-> bytes_consumed, bytes_written |-> bytes_written]

\* inflate_loop: decode into the window at dict_ofs and hand out of it,
\* until the output is full, the input is used up or the stream is done.
RECURSIVE inflate_loop(_, _, _, _, _, _, _, _)
inflate_loop(ar, st, in_off, in_len, out_len, orig_in_len, flush, total) ==
    LET Next(status, st2, in_bytes, n) ==
            IF \/ Negative(status)
               \/ status = "NeedsMoreInput" /\ orig_in_len = 0
               \/ flush = "Finish" /\ (status = "Done" \/ out_len - n = 0)
               \/ flush # "Finish" /\ (\/ status = "Done"
                                       \/ in_len - in_bytes = 0
                                       \/ out_len - n = 0
                                       \/ st2.dict_avail # 0)
            THEN StreamResult(st2, total[1] + in_bytes, total[2] + n)
            ELSE inflate_loop(ar, st2, in_off + in_bytes, in_len - in_bytes, out_len - n,
                              orig_in_len, flush, <<total[1] + in_bytes, total[2] + n>>)
        Pushed(d, n) ==
            Next(d.status,
                 push_dict_out([d.st EXCEPT !.last_status = d.status,
                                            !.dict_avail = d.out_bytes], n),
                 d.in_bytes, n)
        Decoded(d) == Pushed(d, Min({d.out_bytes, out_len}))
    IN Decoded(decompress(ar, st, in_off, in_len, DictSize - st.dict_ofs, flush # "Finish"))

\* inflate::stream::inflate(state, input, output, flush)
inflate(ar, st, in_off, in_len, out_len, flush) ==
    LET Called(s) == [s EXCEPT !.first_call = FALSE]
        Flushed(s) == [s EXCEPT !.has_flushed = @ \/ flush = "Finish"]
        \* Finish on the first call: straight into the output, which has to take it all
        Direct(d) ==
            StreamResult([d.st EXCEPT !.last_status =
                                 IF Negative(d.status) \/ d.status = "Done"
                                 THEN d.status ELSE "Failed"],
                         d.in_bytes, d.out_bytes)
        Waiting(s, n) == StreamResult(push_dict_out(s, n), 0, n)
    IN IF Negative(st.last_status) THEN StreamResult(Called(st), 0, 0)
       ELSE IF st.has_flushed /\ flush # "Finish" THEN StreamResult(Called(st), 0, 0)
       ELSE IF flush = "Finish" /\ st.first_call
       THEN Direct(decompress(ar, Flushed(Called(st)), in_off, in_len, out_len, FALSE))
       ELSE IF st.dict_avail # 0
       THEN Waiting(Flushed(Called(st)), Min({st.dict_avail, out_len}))
       ELSE inflate_loop(ar, Flushed(Called(st)), in_off, in_len, out_len, in_len, flush,
                         <<0, 0>>)

(* ------------------- entry.rs: ZipEntryReader::read --------------------- *)

\* What a read call hands back: the reader and the source position after it,
\* Ok(n) or Err(err), and the bytes put in out_buf as a range <<from, to>>
\* (source offsets for a stored entry, offsets in the decoded stream for a
\* deflate entry).
ReadResult(zr, pos, n, err, from) ==
    [zr |-> zr, pos |-> pos, n |-> n, err |-> err, bytes |-> <<from, from + n>>]

\* to_read of read_stored; the variant asks for all of out_buf.
to_read_unbounded(len, zr) == len
to_read(len, zr) == Min({len, zr.compressed_remaining})

\* read_stored
read_stored(ar, zr, pos, len) ==
    LET Got(n) ==
            IF n > zr.uncompressed_remaining THEN ReadResult(zr, pos + n, 0, "Panic", pos)
            ELSE ReadResult([zr EXCEPT !.compressed_remaining = @ - n,
                                       !.uncompressed_remaining = @ - n],
                            pos + n, n, "Ok", pos)
        ToRead(want) == IF want = 0 THEN ReadResult(zr, pos, 0, "Ok", pos)
                        ELSE Got(source_read(ar, pos, want))
    IN ToRead(to_read(len, zr))

\* A refill that does not wait for the input buffer to be used up.
NeedsRefill_eager(zr) == zr.compressed_remaining > 0

\* The refill test at the top of the loop of read_deflate.
NeedsRefill(zr) == zr.in_buf_start >= zr.in_buf_end /\ zr.compressed_remaining > 0

\* The refill: up to in_buf.len() bytes of what is left of the entry.
Refill(ar, zr, pos) ==
    LET Got(n) == [zr |-> [zr EXCEPT !.in_buf = pos, !.in_buf_start = 0, !.in_buf_end = n,
                                     !.compressed_remaining = @ - n],
                   pos |-> pos + n]
    IN IF NeedsRefill(zr)
       THEN Got(source_read(ar, pos, Min({InBufLen, zr.compressed_remaining})))
       ELSE [zr |-> zr, pos |-> pos]

\* The flush mode read_deflate asks for.
Flush(zr) ==
    IF zr.compressed_remaining = 0 /\ zr.in_buf_start >= zr.in_buf_end
    THEN "Finish" ELSE "None"

\* The next byte of the decoded stream that has not been handed out.
HandedOut(st) == st.produced - st.dict_avail

\* The loop of read_deflate, total_out bytes into an out_buf of len bytes;
\* first is the offset in the decoded stream of out_buf[0].  An iteration
\* that goes round with the reader, the source and total_out as it found
\* them is followed by the same iteration for ever: the call does not
\* return, which the result records as NeverReturns.
RECURSIVE DeflateLoop(_, _, _, _, _, _)
DeflateLoop(ar, zr0, pos0, len, total_out, first) ==
    LET Break(zr, pos, tot) ==
            ReadResult([zr EXCEPT !.uncompressed_remaining = Max({0, @ - tot})],
                       pos, tot, "Ok", first)
        Fail(zr, pos) == ReadResult(zr, pos, 0, "DecompressionError", first)
        Again(zr, pos, tot) ==
            IF <<zr, pos, tot>> = <<zr0, pos0, total_out>>
            THEN ReadResult(zr, pos, 0, "NeverReturns", first)
            ELSE DeflateLoop(ar, zr, pos, len, tot, first)
        Match(zr, pos, tot) ==
            CASE zr.inflater.last_status = "Done" -> Break(zr, pos, tot)
              [] zr.inflater.last_status = "NeedsMoreInput" ->
                     IF zr.compressed_remaining = 0 /\ zr.in_buf_start >= zr.in_buf_end
                     THEN Fail(zr, pos)
                     ELSE Again(zr, pos, tot)
              [] zr.inflater.last_status = "HasMoreOutput" ->
                     IF len - total_out = 0 THEN Break(zr, pos, tot)
                     ELSE Again(zr, pos, tot)
              [] OTHER -> Fail(zr, pos)
        Inflated(zr, pos, result) ==
            Match([zr EXCEPT !.inflater = result.st,
                             !.in_buf_start = @ + result.bytes_consumed],
                  pos, total_out + result.bytes_written)
        Filled(f) ==
            IF len - total_out = 0 THEN Break(f.zr, f.pos, total_out)
            ELSE Inflated(f.zr, f.pos,
                          inflate(ar, f.zr.inflater, f.zr.in_buf + f.zr.in_buf_start,
                                  f.zr.in_buf_end - f.zr.in_buf_start, len - total_out,
                                  Flush(f.zr)))
    IN Filled(Refill(ar, zr0, pos0))

\* read_deflate
read_deflate(ar, zr, pos, len) == DeflateLoop(ar, zr, pos, len, 0, HandedOut(zr.inflater))

\* ZipEntryReader::read
read(ar, zr, pos, len) ==
    IF len = 0 THEN ReadResult(zr, pos, 0, "Ok", 0)
    ELSE IF zr.compression = 0 THEN read_stored(ar, zr, pos, len)
    ELSE read_deflate(ar, zr, pos, len)

(* ------------------- entry.rs: skip and seek ---------------------------- *)

\* A u64 as top * 2^64 + low, so that a negative i64 cast with `as u64`
\* keeps its value: -1 is 2^64 - 1.
as_u64(n) == [top |-> IF n < 0 THEN 1 ELSE 0, low |-> n]

\* min(buf.len(), remaining as usize): a cast negative count is far above
\* 512 in 32 bits as in 64.
SkipChunk(remaining) == IF remaining.top = 1 THEN 512 ELSE Min({512, remaining.low})

\* The loop of skip: remaining bytes to go of the n asked for.
RECURSIVE SkipLoop(_, _, _, _, _)
SkipLoop(ar, zr, pos, n, remaining) ==
    LET Skipped_(z, at) == [zr |-> z, pos |-> at, n |-> n.low - remaining.low, err |-> "Ok"]
        Got(res) ==
            IF res.err # "Ok" THEN [zr |-> res.zr, pos |-> res.pos, n |-> 0, err |-> res.err]
            ELSE IF res.n = 0 THEN Skipped_(res.zr, res.pos)
            ELSE SkipLoop(ar, res.zr, res.pos, n, [remaining EXCEPT !.low = @ - res.n])
    IN IF remaining.top = 0 /\ remaining.low = 0 THEN Skipped_(zr, pos)
       ELSE Got(read(ar, zr, pos, SkipChunk(remaining)))

\* ZipEntryReader::skip
skip(ar, zr, pos, n) == SkipLoop(ar, zr, pos, n, n)

\* <ZipEntryReader as Seek>::seek
seek(ar, zr, pos, from, n) ==
    IF from = "Current" THEN skip(ar, zr, pos, as_u64(n))
    ELSE [zr |-> zr, pos |-> pos, n |-> 0, err |-> "Unsupported"]

(* ------------------- a walk over one archive ---------------------------- *)

NoReader == [compression |-> -1]
NoRead == [op |-> "none", len |-> -1, n |-> 0, err |-> "Ok", asked |-> 0, left |-> 0]

\* Lengths of the out_buf of a read call.
OutSizes == {0, 1, 512, 33000}

\* out followed by the bytes of the range r (adjacent ranges are one range).
AppendRange(out, r) ==
    IF r[1] = r[2] THEN out
    ELSE IF out # <<>> /\ out[Len(out)][2] = r[1]
    THEN [out EXCEPT ![Len(out)] = <<@[1], r[2]>>]
    ELSE Append(out, r)

\* The size of the read that a read call of a stored entry makes on the
\* source (none for an empty out_buf).
Asked(zr, len) ==
    IF zr.compression = COMPRESSION_STORED /\ len > 0 THEN to_read(len, zr) ELSE 0

ZipStart ==
    /\ zar \in Archives
    /\ zpos = 0
    /\ zentries = <<>>
    /\ zerr = "Ok"
    /\ zopen = 0
    /\ zrd = NoReader
    /\ zout = <<>>
    /\ zlast = NoRead
    /\ zreads = 0
    /\ zstatus = "fresh"

\* parse_zip(&mut source)
ZipParse ==
    /\ zstatus = "fresh"
    /\ LET Parsed(res) ==
             /\ zentries' = IF res.ok THEN res.val ELSE <<>>
             /\ zerr' = IF res.ok THEN "Ok" ELSE res.val
             /\ zpos' = res.pos
             /\ zstatus' = IF res.ok THEN "parsed" ELSE "failed"
       IN Parsed(parse_zip(zar, zpos))
    /\ UNCHANGED <<zar, zopen, zrd, zout, zlast, zreads, NotZip>>

\* ZipEntryReader::new(&mut source, &entries[i])
ZipOpen ==
    /\ zstatus = "parsed"
    /\ \E i \in 1..Len(zentries) :
         LET Opened(res) ==
               /\ zopen' = i
               /\ zrd' = IF res.ok THEN res.val ELSE NoReader
               /\ zerr' = IF res.ok THEN "Ok" ELSE res.val
               /\ zpos' = res.pos
               /\ zstatus' = IF res.ok THEN "open" ELSE "failed"
         IN Opened(new(zar, zpos, zentries[i]))
    /\ UNCHANGED <<zar, zentries, zout, zlast, zreads, NotZip>>

\* reader.read(&mut out_buf[..len]); reading stops at the first error.
ZipRead ==
    /\ zstatus = "open"
    /\ zlast.err = "Ok"
    /\ zreads < MaxReads
    /\ \E len \in OutSizes :
         LET Done(res) ==
               /\ zrd' = res.zr
               /\ zpos' = res.pos
               /\ zout' = AppendRange(zout, res.bytes)
               /\ zlast' = [op |-> "read", len |-> len, n |-> res.n, err |-> res.err,
                            asked |-> Asked(zrd, len), left |-> zrd.compressed_remaining]
         IN Done(read(zar, zrd, zpos, len))
    /\ zreads' = zreads + 1
    /\ UNCHANGED <<zar, zentries, zerr, zopen, zstatus, NotZip>>

\* Offsets of a seek on the entry reader.
SeekOffsets == {-600, -1, 0, 1, 600}

\* reader.seek(SeekFrom::from(n)) on the open entry.
ZipSeek ==
    /\ zstatus = "open"
    /\ zlast.err = "Ok"
    /\ zreads < MaxReads
    /\ \E from \in {"Start", "Current", "End"}, n \in SeekOffsets :
         LET Done(res) ==
               /\ zrd' = res.zr
               /\ zpos' = res.pos
               /\ zlast' = [op |-> "seek", from |-> from, offset |-> n, len |-> -1,
                            n |-> res.n, err |-> res.err, asked |-> 0,
                            left |-> zrd.compressed_remaining, had |-> zrd, at |-> zpos]
         IN Done(seek(zar, zrd, zpos, from, n))
    /\ zreads' = zreads + 1
    /\ UNCHANGED <<zar, zentries, zerr, zopen, zout, zstatus, NotZip>>

\* The source loses its tail while an entry is open (the file is cut short
\* under the reader): it now ends at the first byte of the data of the open
\* entry, after its first byte, or before its last byte.
Tails(ar, i) ==
    {DataOff(ar, i) + k : k \in {0, 1, ar.files[i].csize - 1} \cap Nat}

ZipTruncate ==
    /\ zstatus = "open"
    /\ zar.cut = 0
    /\ zlast.err = "Ok"
    /\ \E size \in Tails(zar, zopen) :
         zar' = [zar EXCEPT !.cut = WrittenSize(zar) - size]
    /\ UNCHANGED <<zpos, zentries, zerr, zopen, zrd, zout, zlast, zreads, zstatus, NotZip>>

\* A source that may be no archive, before parse_zip.
EocdStart ==
    /\ zar \in Sources
    /\ zpos = 0
    /\ zentries = <<>>
    /\ zerr = "Ok"
    /\ zopen = 0
    /\ zrd = NoReader
    /\ zout = <<>>
    /\ zlast = NoRead
    /\ zreads = 0
    /\ zstatus = "fresh"

ZipParked ==
    /\ zar = <<>> /\ zpos = 0 /\ zentries = <<>> /\ zerr = "Ok" /\ zopen = 0
    /\ zrd = NoReader /\ zout = <<>> /\ zlast = NoRead /\ zreads = 0
    /\ zstatus = "parked"

(* ----------------------- embedded_zip: the claims ----------------------- *)

\* The reader of a deflate entry has input to come, none in its buffer, and
\* the source has no byte left to give.
Starved ==
    /\ zstatus = "open"
    /\ zrd.compression = COMPRESSION_DEFLATE
    /\ zrd.compressed_remaining > 0
    /\ zrd.in_buf_start >= zrd.in_buf_end
    /\ zpos >= SourceSize(zar)

\* C38: the entry reader is forward-only: a seek from Start or End, and a
\* relative seek by a negative offset, returns an error and leaves the reader
\* and the source where they were; a relative seek by n >= 0 skips n bytes
\* of the entry, or what is left of it.
C38_SeekForwardOnly ==
    zlast.op = "seek" =>
        /\ zlast.from # "Current" \/ zlast.offset < 0 =>
              /\ zlast.err # "Ok"
              /\ zrd = zlast.had
              /\ zpos = zlast.at
        /\ zlast.from = "Current" /\ zlast.offset >= 0 /\ zlast.err = "Ok" =>
              /\ zlast.n <= zlast.offset
              /\ zlast.n = zlast.had.uncompressed_remaining - zrd.uncompressed_remaining

\* C33: every read call on a deflate entry returns, also when the source is
\* cut short so that its read returns 0 while compressed_remaining > 0; a
\* read that stopped short of its out_buf on such a source reports an error.
C33_DeflateReadReturns ==
    /\ zlast.err # "NeverReturns"
    /\ Starved /\ zlast.len > 0 /\ zlast.n < zlast.len => zlast.err # "Ok"

\* The bytes of file i, as the ranges a read of all of it hands back.
Content(ar, i) ==
    IF ar.files[i].usize = 0 THEN <<>>
    ELSE IF ar.files[i].method = COMPRESSION_STORED
    THEN << <<DataOff(ar, i), DataOff(ar, i) + ar.files[i].usize>> >>
    ELSE << <<0, ar.files[i].usize>> >>

\* out holds the first bytes of content and nothing else.
IsPrefixOf(out, content) ==
    \/ out = <<>>
    \/ /\ content # <<>>
       /\ Len(out) = 1
       /\ out[1][1] = content[1][1]
       /\ out[1][2] <= content[1][2]

\* The last read had room in out_buf and returned 0: the end of the stream.
AtEnd == zlast.len > 0 /\ zlast.n = 0 /\ zlast.err = "Ok"

\* C6: parse_zip returns one entry per central-directory record, in that
\* order and with the recorded names; reading a stored entry with any
\* sequence of buffer sizes returns the bytes of the entry, all of them once
\* a read returns 0.
C6_StoredRoundTrip ==
    /\ zstatus \in {"parsed", "open", "failed"} =>
          /\ zerr = "Ok"
          /\ Len(zentries) = Len(zar.files)
          /\ \A i \in 1..Len(zentries) : zentries[i].name = zar.files[i].name
    /\ (zstatus = "open" /\ zrd.compression = COMPRESSION_STORED) =>
          /\ zlast.err = "Ok"
          /\ IsPrefixOf(zout, Content(zar, zopen))
          /\ AtEnd => zout = Content(zar, zopen)

RECURSIVE Delivered(_)
Delivered(out) ==
    IF out = <<>> THEN 0 ELSE (Head(out)[2] - Head(out)[1]) + Delivered(Tail(out))

\* C28: on a stored entry no read call asks the source for more than
\* compressed_remaining bytes, no read fails, the bytes handed out in all
\* are never more than the size in the local header, and a read made after
\* that many bytes were handed out returns 0.
C28_StoredBounded ==
    (zstatus = "open" /\ zrd.compression = COMPRESSION_STORED) =>
        /\ zlast.asked <= zlast.left
        /\ zlast.err = "Ok"
        /\ Delivered(zout) <= LfhAt(zar, zentries[zopen].offset).uncompressed_size
        /\ (zreads > 0 /\ Delivered(zout) - zlast.n
                           = LfhAt(zar, zentries[zopen].offset).uncompressed_size) =>
               zlast.n = 0

\* An entry with more of the archive behind it, read into a buffer larger
\* than the entry and then read again.
C28_Witness ==
    /\ zstatus = "open" /\ zrd.compression = COMPRESSION_STORED
    /\ zopen < Len(zar.files)
    /\ zreads = 2
    /\ zlast.len = 33000 /\ zlast.n = 0 /\ zlast.left = 0
    /\ Delivered(zout) = 1500

\* The bytes find_end_central_directory looks at, the last 1024 or all of
\* the source, hold a whole end-of-central-directory record.
RecordInWindow(ar) ==
    /\ EocdOff(ar) >= Max({0, SourceSize(ar) - EocdWindow})
    /\ EocdOff(ar) + EocdLen <= SourceSize(ar)

\* C29: parse_zip on a source without a whole end-of-central-directory
\* record in its last 1024 bytes returns InvalidData.
C29_NoRecordInvalidData ==
    (zstatus \in {"parsed", "failed"} /\ ~RecordInWindow(zar)) => zerr = "InvalidData"

(* ======================================================================= *)
(*                         layout: layout_text                             *)
(* ======================================================================= *)

MaxRuns == 2            \* runs per paragraph

\* A word is the sequence of parts hypher::hyphenate splits it into; a part
\* has a length in bytes, a width in pixels and may end in '-'.
Part(len, w, dash) == [len |-> len, w |-> w, dash |-> dash]

Words ==
    { << Part(3, 6, FALSE) >>,
      << Part(3, 6, FALSE), Part(3, 6, FALSE), Part(2, 4, FALSE) >>,
      << Part(5, 10, TRUE), Part(5, 12, FALSE) >>,
      << Part(2, 4, FALSE), Part(2, 4, FALSE) >>,
      << Part(9, 30, FALSE) >> }

\* Run.text, split at whitespace.
RunTexts ==
    {<<>>} \cup {<<w>> : w \in Words} \cup {<< <<Part(3, 6, FALSE)>>, w >> : w \in Words}

Runs == [text : RunTexts, breaking : BOOLEAN]

LayoutOptions == [width : {24, 40}, space_width : {3}, dash_width : {2}]

Alignments == {"Start", "Center", "End", "Justify"}

\* First-line indents, up to the largest text-indent css.rs parses.
Indents == {0, 5, 30, 65535}

RECURSIVE SumField(_, _)
SumField(parts, f) == IF parts = <<>> THEN 0 ELSE Head(parts)[f] + SumField(Tail(parts), f)

\* FontDefinition::word_width
word_width(word) == SumField(word, "w")

\* u16 arithmetic: the sum a wrapping build computes, and whether it overflows.
Add16(a, b) == (a + b) % 65536
Carry(a, b) == a + b >= 65536
saturating_sub(a, b) == IF a > b THEN a - b ELSE 0

Text(text, x) == [text |-> text, x |-> x]
EmptyLine == [words |-> <<>>, hyphenated |-> FALSE]
Aligned(words, ovf) == [words |-> words, ovf |-> ovf]

\* The loop of justify from word k on.
RECURSIVE JustifyFrom(_, _, _, _, _)
JustifyFrom(words, k, offset, rem, space) ==
    LET Shift(by, rem1) ==
            LET Rest(r) == Aligned(r.words, r.ovf \/ Carry(words[k].x, by))
            IN Rest(JustifyFrom([words EXCEPT ![k].x = Add16(@, by)], k + 1, by, rem1, space))
    IN IF k > Len(words) THEN Aligned(words, FALSE)
       ELSE IF rem > 0 THEN Shift(offset + 1 + space, rem - 1)
       ELSE Shift(offset + space, rem)

\* justify; the variant leaves the remainder of the division out.
justify_floor(room, words) ==
    IF saturating_sub(Len(words), 1) = 0 THEN Aligned(words, FALSE)
    ELSE JustifyFrom(words, 2, 0, 0, room \div (Len(words) - 1))
justify(room, words) ==
    IF saturating_sub(Len(words), 1) = 0 THEN Aligned(words, FALSE)
    ELSE JustifyFrom(words, 2, 0, room % (Len(words) - 1), room \div (Len(words) - 1))

\* nudge_by
nudge_by(offset, words) ==
    Aligned([i \in 1..Len(words) |-> [words[i] EXCEPT !.x = Add16(@, offset)]],
            \E i \in 1..Len(words) : Carry(words[i].x, offset))

\* nudge
nudge(alignment, space, words) ==
    CASE alignment = "Center" -> nudge_by(space \div 2, words)
      [] alignment = "End" -> nudge_by(space, words)
      [] OTHER -> Aligned(words, FALSE)

\* align
align(alignment, space, words) ==
    CASE alignment = "Start" -> Aligned(words, FALSE)
      [] alignment = "Justify" -> justify(space, words)
      [] OTHER -> nudge(alignment, space, words)

\* The loop of hyphenate over the parts from part i on: <<i, space>> at the
\* first part wider than the space left, <<Len(word) + 1, space>> if none is.
RECURSIVE FirstMisfit(_, _, _)
FirstMisfit(word, i, space) ==
    IF i > Len(word) \/ word[i].w > space THEN <<i, space>>
    ELSE FirstMisfit(word, i + 1, space - word[i].w)

\* `word.len() < 5` of hyphenate; the variant lets every word through.
TooShort_never(word) == FALSE
TooShort(word) == SumField(word, "len") < 5

\* hyphenate: Some((remaining, space)) with the prefix pushed on the line, or None.
hyphenate(x, word, current_line, options) ==
    LET None_(ovf) == [some |-> FALSE, remaining |-> word, space |-> 0,
                       line |-> current_line, ovf |-> ovf]
        ovf0 == Carry(x, options.space_width)
                  \/ Carry(Add16(x, options.space_width), options.dash_width)
        Push(prefix, rest, space, x1, ovf1) ==
            IF prefix[Len(prefix)].dash
            THEN [some |-> TRUE, remaining |-> rest, space |-> space,
                  line |-> [hyphenated |-> TRUE,
                            words |-> Append(current_line.words,
                                Text([prefix EXCEPT ![Len(prefix)] =
                                          Part(@.len - 1, @.w - options.dash_width, FALSE)],
                                     Add16(x1, options.dash_width)))],
                  ovf |-> ovf1 \/ Carry(x1, options.dash_width)]
            ELSE [some |-> TRUE, remaining |-> rest, space |-> space,
                  line |-> [hyphenated |-> TRUE,
                            words |-> Append(current_line.words, Text(prefix, x1))],
                  ovf |-> ovf1]
        Split(m) ==
            IF m[1] > Len(word) \/ m[1] = 1 THEN None_(ovf0)
            ELSE IF current_line.words # <<>>
            THEN Push(SubSeq(word, 1, m[1] - 1), SubSeq(word, m[1], Len(word)), m[2],
                      Add16(x, options.space_width), ovf0)
            ELSE Push(SubSeq(word, 1, m[1] - 1), SubSeq(word, m[1], Len(word)), m[2], x, ovf0)
        Room(space) == IF space = 0 THEN None_(ovf0) ELSE Split(FirstMisfit(word, 1, space))
    IN IF TooShort(word) THEN None_(FALSE)
       ELSE Room(saturating_sub(options.width,
                     Add16(Add16(x, options.space_width), options.dash_width)))

\* The state of layout_text between two words: x, current_line, lines, and
\* whether a u16 sum has overflowed so far.
LayoutState(x, line, lines, ovf) == [x |-> x, line |-> line, lines |-> lines, ovf |-> ovf]

\* align and push the current line, start the next one at x = 0.
FlushLine(alignment, options, x, line, lines, ovf) ==
    LET Flushed(a) ==
            LayoutState(0, EmptyLine,
                        Append(lines, [line EXCEPT !.words = a.words]), ovf \/ a.ovf)
    IN Flushed(align(alignment, saturating_sub(options.width, x), line.words))

\* The body of the loop over the words of a run.
PlaceWord(s, word0, options, alignment) ==
    LET Add(t, word) ==
            IF t.line.words # <<>>
            THEN LayoutState(
                     Add16(Add16(t.x, options.space_width), word_width(word)),
                     [t.line EXCEPT !.words =
                          Append(@, Text(word, Add16(t.x, options.space_width)))],
                     t.lines,
                     t.ovf \/ Carry(t.x, options.space_width)
                           \/ Carry(Add16(t.x, options.space_width), word_width(word)))
            ELSE LayoutState(Add16(t.x, word_width(word)),
                             [t.line EXCEPT !.words = Append(@, Text(word, t.x))],
                             t.lines, t.ovf \/ Carry(t.x, word_width(word)))
        Wrapped(h, ovf) ==
            IF h.some
            THEN Add(FlushLine(alignment, options, options.width - h.space, h.line,
                               s.lines, s.ovf \/ ovf \/ h.ovf), h.remaining)
            ELSE Add(FlushLine(alignment, options, s.x, s.line, s.lines,
                               s.ovf \/ ovf \/ h.ovf), word0)
        Checked(ovf) ==
            IF Add16(Add16(s.x, options.space_width), word_width(word0)) >= options.width
            THEN Wrapped(hyphenate(s.x, word0, s.line, options), ovf)
            ELSE Add([s EXCEPT !.ovf = @ \/ ovf], word0)
    IN Checked(Carry(s.x, options.space_width)
                 \/ Carry(Add16(s.x, options.space_width), word_width(word0)))

RECURSIVE LayoutWords(_, _, _, _)
LayoutWords(s, words, options, alignment) ==
    IF words = <<>> THEN s
    ELSE LayoutWords(PlaceWord(s, Head(words), options, alignment), Tail(words),
                     options, alignment)

\* The loop over the runs.
RECURSIVE LayoutRuns(_, _, _, _)
LayoutRuns(s, runs, options, alignment) ==
    LET AfterWords(t) ==
            IF Head(runs).breaking
            THEN FlushLine(alignment, options, t.x, t.line, t.lines, t.ovf)
            ELSE t
    IN IF runs = <<>> THEN s
       ELSE LayoutRuns(AfterWords(LayoutWords(s, Head(runs).text, options, alignment)),
                       Tail(runs), options, alignment)

\* layout_text: the lines, and whether a checked build has panicked on the way.
layout_text(options, alignment, indent, runs) ==
    LET Last(s, a) ==
            [lines |-> Append(s.lines, [s.line EXCEPT !.words = a.words]),
             ovf |-> s.ovf \/ a.ovf]
        End(s) ==
            IF s.line.words # <<>>
            THEN Last(s, nudge(alignment, saturating_sub(options.width, s.x), s.line.words))
            ELSE [lines |-> s.lines, ovf |-> s.ovf]
    IN End(LayoutRuns(LayoutState(indent, EmptyLine, <<>>, FALSE), runs, options, alignment))

(* ------------------------- one call of layout_text ---------------------- *)

LayoutStart ==
    /\ lopts \in LayoutOptions
    /\ lalign \in Alignments
    /\ lindent \in Indents
    /\ lruns \in SeqsUpTo(Runs, MaxRuns)
    /\ lbuild \in {"checked", "wrapping"}     \* overflow-checks of the build
    /\ llines = <<>>
    /\ lcall = [op |-> "none"]
    /\ lstatus = "ready"

\* layout_text(options, alignment, indent, &runs)
LayoutText ==
    /\ lstatus = "ready"
    /\ LET Done(res) ==
             IF res.ovf /\ lbuild = "checked"
             THEN llines' = <<>> /\ lstatus' = "panic"
             ELSE llines' = res.lines /\ lstatus' = "done"
       IN Done(layout_text(lopts, lalign, lindent, lruns))
    /\ UNCHANGED <<lopts, lalign, lindent, lruns, lbuild, lcall, NotLayout>>

LayoutParked ==
    /\ lopts = <<>> /\ lalign = "Start" /\ lindent = 0 /\ lruns = <<>>
    /\ lbuild = "checked" /\ llines = <<>> /\ lcall = [op |-> "none"] /\ lstatus = "parked"

(* --------------------------- one call of justify ------------------------ *)

MaxRoom == 8            \* the unused space of the line
MaxLineWords == 4       \* words on the line

\* The x of word k of a line that begins at x1 and whose word j + 1 begins
\* gaps[j] after word j does.
RECURSIVE XAt(_, _, _)
XAt(x1, gaps, k) == IF k = 1 THEN x1 ELSE XAt(x1, gaps, k - 1) + gaps[k - 1]

\* The lines justify is given: words as layout_text has placed them.
JustifyLines ==
    {<<>>} \cup
    UNION {{[k \in 1..n |-> Text(<<Part(3, 6, FALSE)>>, XAt(x1, gaps, k))] :
               x1 \in {0, 5}, gaps \in [1..(n - 1) -> {9, 13}]} : n \in 1..MaxLineWords}

JustifyStart ==
    /\ lopts = <<>> /\ lalign = "Justify" /\ lindent = 0 /\ lruns = <<>>
    /\ lbuild = "checked" /\ llines = <<>> /\ lcall = [op |-> "none"] /\ lstatus = "ready"

\* justify(room, &mut words)
JustifyCall ==
    /\ lstatus = "ready"
    /\ lcall.op = "none"
    /\ \E room \in 0..MaxRoom, words \in JustifyLines :
          lcall' = [op |-> "justify", room |-> room, words |-> words,
                    out |-> justify(room, words)]
    /\ UNCHANGED <<lopts, lalign, lindent, lruns, lbuild, llines, lstatus, NotLayout>>

(* --------------------------- layout: the claims ------------------------- *)

\* The widths of the words of the runs.
WordWidths(runs) ==
    {word_width(runs[i].text[j]) : <<i, j>> \in
        {p \in (1..Len(runs)) \X (1..2) : p[2] <= Len(runs[p[1]].text)}}

\* C8: if width > space_width + the width of the widest word, every word
\* layout_text has placed, prefixes and suffixes of hyphenated words
\* included, ends at or before width once its line is aligned.
C8_WordsFit ==
    (/\ lstatus = "done"
     /\ \A w \in WordWidths(lruns) : lopts.width > lopts.space_width + w) =>
        \A i \in 1..Len(llines) : \A j \in 1..Len(llines[i].words) :
            llines[i].words[j].x + word_width(llines[i].words[j].text) <= lopts.width

\* C24: under Justify the words of the last line layout_text returns have
\* the x offsets of plain placement from the left, those that alignment Start
\* gives them, whatever the runs and the breaking flag of the last run.
C24_LastLineNotJustified ==
    (lstatus = "done" /\ lalign = "Justify" /\ llines # <<>>) =>
        llines[Len(llines)].words
            = layout_text(lopts, "Start", lindent, lruns).lines[Len(llines)].words

\* The words of the runs, and the words of the lines that are neither the
\* last of a hyphenated line nor the first of the line after one.
InputWords == {lruns[i].text[j] : <<i, j>> \in
                  {p \in (1..Len(lruns)) \X (1..2) : p[2] <= Len(lruns[p[1]].text)}}
WholeWords ==
    {llines[i].words[j].text : <<i, j>> \in
        {p \in (1..Len(llines)) \X (1..4) :
            /\ p[2] <= Len(llines[p[1]].words)
            /\ ~(llines[p[1]].hyphenated /\ p[2] = Len(llines[p[1]].words))
            /\ ~(p[1] > 1 /\ llines[p[1] - 1].hyphenated /\ p[2] = 1)}}

\* A prefix hyphenate has pushed, its '-' put back if it was stripped, as the
\* first m parts of the word.
IsPrefix(text, word, m) ==
    \/ text = SubSeq(word, 1, m)
    \/ /\ word[m].dash
       /\ Len(text) = m
       /\ SubSeq(text, 1, m - 1) = SubSeq(word, 1, m - 1)
       /\ text[m] = Part(word[m].len - 1, word[m].w - lopts.dash_width, FALSE)

\* C25: every word on a line is a whole word of the runs, but for the last
\* word of a hyphenated line and the first word of the line after it: these
\* are a prefix and the rest of one word of 5 bytes or more (the prefix
\* without a '-' it ended in); so a word of fewer than 5 bytes is on its line
\* whole.
C25_Hyphenation ==
    lstatus = "done" =>
        /\ WholeWords \subseteq InputWords
        /\ \A i \in 1..Len(llines) :
               llines[i].hyphenated =>
                   /\ i < Len(llines)
                   /\ llines[i].words # <<>> /\ llines[i + 1].words # <<>>
                   /\ \E word \in InputWords : \E m \in 1..(Len(word) - 1) :
                          /\ SumField(word, "len") >= 5
                          /\ IsPrefix(llines[i].words[Len(llines[i].words)].text, word, m)
                          /\ llines[i + 1].words[1].text = SubSeq(word, m + 1, Len(word))

C25_Witness ==
    /\ lstatus = "done" /\ Len(llines) = 2 /\ llines[1].hyphenated
    /\ Len(llines[1].words) = 2
    /\ llines[1].words[2].text = <<Part(4, 8, FALSE)>>
    /\ llines[2].words[1].text = <<Part(5, 12, FALSE)>>
    /\ <<Part(2, 4, FALSE), Part(2, 4, FALSE)>> \in InputWords

\* C26: every line layout_text returns holds at least one word.
C26_NoEmptyLine ==
    lstatus = "done" => \A i \in 1..Len(llines) : llines[i].words # <<>>

\* The shift justify gave word k of its last call.
ShiftOf(k) == lcall.out.words[k].x - lcall.words[k].x

\* C23: justify with room s on n >= 2 words leaves the first word in place
\* and shifts word k + 1 by k * (s / (n - 1)) plus one for each of the first
\* s mod (n - 1) gaps before it, so the last word by s; for s = 7 and four
\* words the shifts are 3, 5, 7; a line of one word or none is unchanged.
C23_JustifyShifts ==
    lcall.op = "justify" =>
        LET n == Len(lcall.words)
            s == lcall.room
        IN /\ Len(lcall.out.words) = n
           /\ n <= 1 => lcall.out.words = lcall.words
           /\ n >= 2 =>
                 /\ ShiftOf(1) = 0
                 /\ \A k \in 1..(n - 1) :
                        ShiftOf(k + 1) = k * (s \div (n - 1)) + Min({k, s % (n - 1)})
                 /\ ShiftOf(n) = s
                 /\ (s = 7 /\ n = 4) => <<ShiftOf(2), ShiftOf(3), ShiftOf(4)>> = <<3, 5, 7>>

C23_Witness ==
    /\ lcall.op = "justify" /\ lcall.room = 7 /\ Len(lcall.words) = 4
    /\ ShiftOf(2) = 3 /\ ShiftOf(3) = 5 /\ ShiftOf(4) = 7

(* ======================================================================= *)
(*                   activities/reader: the paginator                      *)
(* ======================================================================= *)

MaxChapters == 2        \* chapters per book
MaxBacks == 2           \* prev_page calls per run

WIDTH == 800            \* framebuffer::WIDTH
HEIGHT == 480           \* framebuffer::HEIGHT
padding == 10           \* padding of draw and prev_page

\* A paragraph: whether its text is empty, and the number of lines layout_text
\* breaks it into on a landscape (wide) and on a portrait (narrow) page.
Paragraph(empty, wide, narrow) == [empty |-> empty, wide |-> wide, narrow |-> narrow]

\* n equal paragraphs in a row.
Block(n, paragraph) == [n |-> n, paragraph |-> paragraph]

\* Option<Chapter>: None, or the paragraphs as a sequence of blocks.
NoChapter == [some |-> FALSE]
Chapter(paragraphs) == [some |-> TRUE, paragraphs |-> paragraphs]

Chapters ==
    { Chapter(<<>>),
      Chapter(<< Block(1, Paragraph(FALSE, 2, 3)) >>),
      Chapter(<< Block(1, Paragraph(FALSE, 20, 35)), Block(2, Paragraph(TRUE, 0, 0)),
                 Block(3, Paragraph(FALSE, 4, 6)) >>),
      Chapter(<< Block(1, Paragraph(FALSE, 1, 1)), Block(4380, Paragraph(TRUE, 0, 0)),
                 Block(1, Paragraph(FALSE, 2, 2)) >>),
      Chapter(<< Block(65530, Paragraph(TRUE, 0, 0)), Block(6, Paragraph(FALSE, 1, 1)) >>) }

\* Option<Book>: None, or what Book::chapter returns for every index below
\* chapter_count (None for a chapter that fails to parse).
NoBook == [some |-> FALSE]
Books ==
    {NoBook} \cup {[some |-> TRUE, chapters |-> c] :
                      c \in SeqsUpTo(Chapters \cup {NoChapter}, MaxChapters)}

\* Book::chapter_count
chapter_count(b) == Len(b.chapters)

\* Book::chapter
book_chapter(b, index) ==
    IF index < Len(b.chapters) THEN b.chapters[index + 1] ELSE NoChapter

\* chapter.paragraphs.len()
RECURSIVE paragraphs_len(_)
paragraphs_len(paragraphs) ==
    IF paragraphs = <<>> THEN 0 ELSE Head(paragraphs).n + paragraphs_len(Tail(paragraphs))

\* chapter.paragraphs[para_idx], with the length of the block it is in and
\* the index one past that block.
RECURSIVE ParagraphAt(_, _, _)
ParagraphAt(paragraphs, para_idx, base) ==
    IF para_idx < base + Head(paragraphs).n
    THEN [paragraph |-> Head(paragraphs).paragraph, n |-> Head(paragraphs).n,
          block_end |-> base + Head(paragraphs).n]
    ELSE ParagraphAt(Tail(paragraphs), para_idx, base + Head(paragraphs).n)

Progress(paragraph, line) == [paragraph |-> paragraph, line |-> line]

\* Page::default
Page_default == [start |-> Progress(0, 0), end |-> Progress(0, 0)]


\* Font::y_advance
y_advance(font) ==
    CASE font = "Size26" -> 30
      [] font = "Size28" -> 32
      [] font = "Size30" -> 34

\* Rotation::size: of Rotate0 and Rotate180, and of Rotate90 and Rotate270
Landscape == [width |-> WIDTH, height |-> HEIGHT]
Portrait == [width |-> HEIGHT, height |-> WIDTH]

\* layout_text(options, &paragraph.text).len(): options.width is the width
\* of the page less the padding on both sides.
para_lines(width, paragraph) ==
    IF width = WIDTH - 2 * padding THEN paragraph.wide ELSE paragraph.narrow

\* page_height of draw: half the page while the settings are shown.
page_height(settings, sz) ==
    IF settings THEN sz.height \div 2 - padding ELSE sz.height - padding - 10

\* The loop of draw over the lines of paragraph para_idx, from line_idx on
\* (the lines before skip are passed over): a line whose bottom is past
\* page_height ends the page.
RECURSIVE DrawLines(_, _, _, _, _)
DrawLines(e, para_idx, line_idx, len, s) ==
    IF line_idx >= len THEN s
    ELSE IF Add16(s.y_cursor, e.y_advance) > e.page_height
    THEN [s EXCEPT !.end_paragraph = para_idx, !.end_line = line_idx, !.broke = TRUE,
                   !.ovf = @ \/ Carry(s.y_cursor, e.y_advance)]
    ELSE DrawLines(e, para_idx, line_idx + 1, len,
             [s EXCEPT !.all_lines = Append(@, [paragraph |-> para_idx, line |-> line_idx,
                                                y |-> s.y_cursor]),
                       !.y_cursor = Add16(@, e.y_advance),
                       !.end_paragraph = para_idx, !.end_line = line_idx + 1,
                       !.ovf = @ \/ Carry(s.y_cursor, e.y_advance)])

\* The loop of draw over the paragraphs from para_idx on.  A run of
\* paragraphs with empty text is taken in one step: each of them adds
\* para_spacing once a line is on the page, and moves the end past itself.
RECURSIVE DrawParagraphs(_, _, _, _)
DrawParagraphs(paragraphs, e, para_idx, s) ==
    LET Spaced(n) ==
            IF (para_idx > e.start_paragraph \/ e.start_line = 0) /\ s.all_lines # <<>>
            THEN [s EXCEPT !.y_cursor = (@ + n * e.para_spacing) % 65536,
                           !.ovf = @ \/ s.y_cursor + n * e.para_spacing >= 65536]
            ELSE s
        Finished(t) ==
            IF t.broke THEN t
            ELSE IF t.end_paragraph = para_idx
            THEN DrawParagraphs(paragraphs, e, para_idx + 1,
                                [t EXCEPT !.end_paragraph = para_idx + 1, !.end_line = 0])
            ELSE DrawParagraphs(paragraphs, e, para_idx + 1, t)
        At(p) ==
            IF p.paragraph.empty
            THEN DrawParagraphs(paragraphs, e, p.block_end,
                                [Spaced(p.block_end - para_idx) EXCEPT
                                     !.end_paragraph = p.block_end, !.end_line = 0])
            ELSE Finished(DrawLines(e, para_idx,
                                    IF para_idx = e.start_paragraph THEN e.start_line ELSE 0,
                                    para_lines(e.width, p.paragraph), Spaced(1)))
    IN IF para_idx >= paragraphs_len(paragraphs) THEN s
       ELSE At(ParagraphAt(paragraphs, para_idx, 0))

\* draw, for a chapter that is loaded: the lines of the page with their
\* offsets and progress.end, a u16 pair.
draw(ch, start, font, settings, sz) ==
    LET Laid(s) == [all_lines |-> s.all_lines, ovf |-> s.ovf, broke |-> s.broke,
                    end |-> Progress(s.end_paragraph % 65536, s.end_line % 65536)]
    IN Laid(DrawParagraphs(ch.paragraphs,
                [width |-> sz.width - 2 * padding,
                 y_advance |-> y_advance(font),
                 para_spacing |-> y_advance(font) \div 2,
                 page_height |-> page_height(settings, sz),
                 start_paragraph |-> start.paragraph,
                 start_line |-> start.line],
                start.paragraph,
                [all_lines |-> <<>>, y_cursor |-> 0, end_paragraph |-> start.paragraph,
                 end_line |-> 0, broke |-> FALSE, ovf |-> FALSE]))

(* ----------------------- next_page, next_chapter ------------------------ *)

\* What next_page and next_chapter leave behind.
Cursor(idx, ch, prog) == [chapter_idx |-> idx, chapter |-> ch, progress |-> prog]

\* next_chapter
next_chapter(b, idx, ch, prog) ==
    IF ~b.some THEN Cursor(idx, ch, prog)
    ELSE IF idx + 1 >= chapter_count(b) THEN Cursor(idx, ch, prog)
    ELSE Cursor(idx + 1, book_chapter(b, idx + 1), [prog EXCEPT !.start = Progress(0, 0)])

\* at_end of next_page
at_end_strict(ch, end) == end.paragraph > paragraphs_len(ch.paragraphs)
at_end(ch, end) == end.paragraph >= paragraphs_len(ch.paragraphs)

\* next_page
next_page(b, idx, ch, prog) ==
    IF ~ch.some THEN next_chapter(b, idx, ch, prog)
    ELSE IF ~at_end(ch, prog.end)
    THEN Cursor(idx, ch, [prog EXCEPT !.start = Progress(prog.end.paragraph, prog.end.line)])
    ELSE next_chapter(b, idx, ch, prog)

(* ------------------- prev_page, compute_prev_page ----------------------- *)

\* The loop of compute_prev_page from paragraph para_idx down.  The inner
\* loop takes y_advance off remaining for each line while it can, which
\* fits min(available, remaining / y_advance) lines.  A run of paragraphs
\* with empty text is taken in one step: each but the one the walk begins
\* with needs para_spacing, and each moves the result to itself.
RECURSIVE PrevParagraphs(_, _, _, _, _, _)
PrevParagraphs(paragraphs, e, para_idx, first_iter, remaining, result) ==
    LET Fitted(rem, available, fitted) ==
            IF rem - fitted * e.y_advance < e.y_advance \/ para_idx = 0
            THEN IF fitted > 0 THEN Progress(para_idx, available - fitted) ELSE result
            ELSE PrevParagraphs(paragraphs, e, para_idx - 1, FALSE,
                                rem - fitted * e.y_advance,
                                IF fitted > 0 THEN Progress(para_idx, available - fitted)
                                ELSE result)
        Lines(rem, available) == Fitted(rem, available, Min({available, rem \div e.y_advance}))
        Empty(rem, first, k) ==
            IF k < para_idx - first THEN Progress(para_idx - k, 0)
            ELSE IF first = 0 THEN Progress(0, 0)
            ELSE PrevParagraphs(paragraphs, e, first - 1, FALSE, rem - k * e.para_spacing,
                                Progress(first, 0))
        At(p, rem) ==
            IF p.paragraph.empty
            THEN Empty(rem, p.block_end - p.n, Min({para_idx - (p.block_end - p.n),
                                                    rem \div e.para_spacing}))
            ELSE IF para_idx = e.cur_para /\ e.cur_line > 0 THEN Lines(rem, e.cur_line)
            ELSE Lines(rem, para_lines(e.width, p.paragraph))
    IN IF ~first_iter /\ remaining < e.para_spacing THEN result
       ELSE IF ~first_iter
       THEN At(ParagraphAt(paragraphs, para_idx, 0), remaining - e.para_spacing)
       ELSE At(ParagraphAt(paragraphs, para_idx, 0), remaining)

\* compute_prev_page: Some(progress), None, or the panic of
\* chapter.paragraphs[para_idx] with para_idx past the last paragraph.
compute_prev_page(ch, current, font, sz) ==
    LET From(para_idx) ==
            IF para_idx >= paragraphs_len(ch.paragraphs)
            THEN [some |-> FALSE, panic |-> TRUE]
            ELSE [some |-> TRUE, panic |-> FALSE,
                  progress |-> PrevParagraphs(ch.paragraphs,
                                   [width |-> sz.width - 2 * padding,
                                    y_advance |-> y_advance(font),
                                    para_spacing |-> y_advance(font) \div 2,
                                    cur_para |-> current.paragraph,
                                    cur_line |-> current.line],
                                   para_idx, TRUE, sz.height - padding - 10,
                                   Progress(0, 0))]
    IN IF current.paragraph = 0 /\ current.line = 0 THEN [some |-> FALSE, panic |-> FALSE]
       ELSE IF current.line > 0 THEN From(current.paragraph)
       ELSE From(saturating_sub(current.paragraph, 1))

\* What prev_page and prev_chapter leave behind: the reader, whether it
\* panicked, and the last compute_prev_page call: the chapter and the
\* position it was given, and whether it returned Some.
Backed(idx, ch, prog, panic, of, from, computed) ==
    [chapter_idx |-> idx, chapter |-> ch, progress |-> prog, panic |-> panic,
     of |-> of, from |-> from, computed |-> computed]

\* prev_chapter
prev_chapter(b, idx, ch, prog, font, sz) ==
    LET Stay(i) == Backed(i, ch, prog, FALSE, ch, prog.start, FALSE)
        Computed(loaded, from, r) ==
            IF r.panic THEN Backed(idx - 1, ch, prog, TRUE, loaded, from, FALSE)
            ELSE IF r.some
            THEN Backed(idx - 1, loaded, [prog EXCEPT !.start = r.progress], FALSE,
                        loaded, from, TRUE)
            ELSE Backed(idx - 1, loaded, [prog EXCEPT !.start = Progress(from.paragraph, 0)],
                        FALSE, loaded, from, FALSE)
        From(loaded, from) == Computed(loaded, from, compute_prev_page(loaded, from, font, sz))
        Last(loaded, last_para) ==
            From(loaded,
                 Progress(last_para % 65536,
                          para_lines(sz.width - 2 * padding,
                                     ParagraphAt(loaded.paragraphs, last_para, 0).paragraph)
                            % 65536))
        Loaded(loaded) ==
            IF ~loaded.some THEN Stay(idx - 1)
            ELSE IF paragraphs_len(loaded.paragraphs) = 0
            THEN Backed(idx - 1, ch, prog, TRUE, ch, prog.start, FALSE)
            ELSE Last(loaded, paragraphs_len(loaded.paragraphs) - 1)
    IN IF ~b.some THEN Stay(idx)
       ELSE IF idx = 0 THEN Stay(idx)
       ELSE Loaded(book_chapter(b, idx - 1))

\* prev_page
prev_page(b, idx, ch, prog, font, sz) ==
    LET Computed(r) ==
            IF r.panic THEN Backed(idx, ch, prog, TRUE, ch, prog.start, FALSE)
            ELSE IF r.some
            THEN Backed(idx, ch, [prog EXCEPT !.start = r.progress], FALSE,
                        ch, prog.start, TRUE)
            ELSE prev_chapter(b, idx, ch, prog, font, sz)
    IN IF ~ch.some THEN prev_chapter(b, idx, ch, prog, font, sz)
       ELSE Computed(compute_prev_page(ch, prog.start, font, sz))

(* ------------------------------ the reader ------------------------------ *)

NoLast == [op |-> "none"]

\* ReaderActivity::new
ReaderStart ==
    /\ book \in Books
    /\ chapter_idx = 0
    /\ chapter = IF book.some THEN book_chapter(book, 0) ELSE NoChapter
    /\ progress = Page_default
    /\ show_settings = FALSE
    /\ font_size = "Size26"
    /\ display_size = Landscape
    /\ drawn = FALSE
    /\ backs = 0
    /\ plast = NoLast
    /\ pstatus = "running"

\* Activity::draw.  Where the sum of a u16 overflows, a build with overflow
\* checks panics and a build without them goes on with the wrapped sum.
ReaderDraw ==
    LET Drawn(d) ==
            /\ \/ /\ d.ovf
                  /\ pstatus' = "panic"
                  /\ UNCHANGED <<progress, drawn>>
               \/ /\ progress' = [progress EXCEPT !.end = d.end]
                  /\ drawn' = TRUE
                  /\ UNCHANGED pstatus
            /\ plast' = [op |-> "draw", page |-> d]
    IN /\ pstatus = "running"
       /\ IF chapter.some
          THEN Drawn(draw(chapter, progress.start, font_size, show_settings, display_size))
          ELSE /\ plast' = NoLast
               /\ UNCHANGED <<progress, drawn, pstatus>>
       /\ UNCHANGED <<book, chapter_idx, chapter, show_settings, font_size, display_size, backs>>
       /\ UNCHANGED NotReader

\* Activity::update, Down pressed: next_page
ReaderNextPage ==
    LET Paged(c) ==
            /\ chapter_idx' = c.chapter_idx
            /\ chapter' = c.chapter
            /\ progress' = c.progress
    IN /\ pstatus = "running"
       /\ ~show_settings
       /\ Paged(next_page(book, chapter_idx, chapter, progress))
       /\ drawn' = FALSE
       /\ plast' = [op |-> "next_page", chapter_idx |-> chapter_idx, chapter |-> chapter,
                    progress |-> progress, drawn |-> drawn]
       /\ UNCHANGED <<book, show_settings, font_size, display_size, backs, pstatus>>
       /\ UNCHANGED NotReader

\* Activity::update, Up pressed: prev_page
ReaderPrevPage ==
    LET Paged(c) ==
            /\ IF c.panic
               THEN /\ pstatus' = "panic"
                    /\ UNCHANGED <<chapter_idx, chapter, progress>>
               ELSE /\ chapter_idx' = c.chapter_idx
                    /\ chapter' = c.chapter
                    /\ progress' = c.progress
                    /\ UNCHANGED pstatus
            /\ plast' = [op |-> "prev_page", chapter_idx |-> chapter_idx,
                         chapter |-> chapter, progress |-> progress, drawn |-> drawn,
                         of |-> c.of, from |-> c.from, computed |-> c.computed]
    IN /\ pstatus = "running"
       /\ ~show_settings
       /\ backs < MaxBacks
       /\ Paged(prev_page(book, chapter_idx, chapter, progress, font_size, display_size))
       /\ drawn' = FALSE
       /\ backs' = backs + 1
       /\ UNCHANGED <<book, show_settings, font_size, display_size>>
       /\ UNCHANGED NotReader

\* Activity::update, Confirm pressed: the settings are shown
ReaderUpdate ==
    /\ pstatus = "running"
    /\ ~show_settings
    /\ show_settings' = ~show_settings
    /\ plast' = NoLast
    /\ UNCHANGED <<book, chapter_idx, chapter, progress, font_size, display_size, drawn, backs,
                   pstatus>>
    /\ UNCHANGED NotReader

\* update_settings: Back, or Confirm with the cursor on the font size or on
\* the rotation (SetRotation of the next quarter turn, which the application
\* applies: the width and the height of the display change places)
ReaderUpdateSettings ==
    /\ pstatus = "running"
    /\ show_settings
    /\ \/ /\ show_settings' = FALSE
          /\ UNCHANGED <<font_size, display_size>>
       \/ /\ font_size' = CASE font_size = "Size26" -> "Size30"
                            [] font_size = "Size28" -> "Size26"
                            [] font_size = "Size30" -> "Size28"
          /\ UNCHANGED <<show_settings, display_size>>
       \/ /\ display_size' = IF display_size = Landscape THEN Portrait ELSE Landscape
          /\ UNCHANGED <<show_settings, font_size>>
    /\ plast' = NoLast
    /\ UNCHANGED <<book, chapter_idx, chapter, progress, drawn, backs, pstatus>>
    /\ UNCHANGED NotReader

ReaderParked ==
    /\ book = NoBook
    /\ chapter_idx = 0
    /\ chapter = NoChapter
    /\ progress = Page_default
    /\ show_settings = FALSE
    /\ font_size = "Size26"
    /\ display_size = Landscape
    /\ drawn = FALSE
    /\ backs = 0
    /\ plast = NoLast
    /\ pstatus = "parked"

(* ---------------------------- reader claims ----------------------------- *)

\* Lexicographic order of Progress.
Greater(a, b) == a.paragraph > b.paragraph \/ (a.paragraph = b.paragraph /\ a.line > b.line)

\* p names a paragraph of the chapter.
Inside(ch, p) == p.paragraph < paragraphs_len(ch.paragraphs)

\* C9: once draw has laid out a page from a start S inside the chapter, the
\* end it computed is greater than S in (paragraph, line) order; and the
\* start that a next_page call after it sets is greater than S.
C9_NextPageAdvances ==
    /\ (pstatus = "running" /\ drawn /\ chapter.some /\ Inside(chapter, progress.start)) =>
           Greater(progress.end, progress.start)
    /\ (/\ plast.op = "next_page"
        /\ plast.drawn
        /\ plast.chapter.some
        /\ Inside(plast.chapter, plast.progress.start)
        /\ Inside(plast.chapter, plast.progress.end)) =>
           Greater(progress.start, plast.progress.start)

\* C11: when compute_prev_page has returned a position S' for a start S,
\* the page that draw lays out from S', with the same font, page size and
\* page height, goes up to S: the end it computes is not before S.
C11_PrevPageFull ==
    (plast.op = "prev_page" /\ plast.computed) =>
        ~Greater(plast.from,
                 draw(plast.of, progress.start, font_size, FALSE, display_size).end)

\* The three ways of C10, for the reader as next_page found it (plast) and
\* as it left it.  A reader without a chapter has no paragraph for end to
\* lie in.
PastEnd == ~plast.chapter.some \/ ~Inside(plast.chapter, plast.progress.end)
LaterChapter == book.some /\ plast.chapter_idx + 1 < chapter_count(book)

WayPage ==
    /\ ~PastEnd
    /\ progress.start = plast.progress.end
    /\ chapter_idx = plast.chapter_idx
WayChapter ==
    /\ PastEnd /\ LaterChapter
    /\ chapter_idx = plast.chapter_idx + 1
    /\ progress.start = Progress(0, 0)
WayStay ==
    /\ PastEnd /\ ~LaterChapter
    /\ chapter_idx = plast.chapter_idx
    /\ progress.start = plast.progress.start

\* C10: a next_page call does exactly one of three things: it sets start to
\* the old end, which lies inside the chapter; or, with end at or past the
\* last paragraph and a later chapter in the book, it adds one to
\* chapter_idx and sets start to (0, 0); or, at the end of the last chapter,
\* it leaves chapter_idx and start as they were.
C10_NextPageThreeWays ==
    plast.op = "next_page" =>
        /\ WayPage \/ WayChapter \/ WayStay
        /\ ~(WayPage /\ WayChapter)
        /\ ~(WayPage /\ WayStay)
        /\ ~(WayChapter /\ WayStay)

\* C36: whatever next_page and prev_page calls were made, chapter_idx is
\* below the chapter count of the book and the chapter the reader holds is
\* the one Book::chapter gives for chapter_idx (None where it fails to load).
C36_ChapterIsAtIndex ==
    (pstatus = "running" /\ book.some /\ chapter_count(book) > 0) =>
        /\ chapter_idx < chapter_count(book)
        /\ chapter = book_chapter(book, chapter_idx)

\* The last call was a prev_page on the first page of a chapter that has a
\* chapter before it, and that one has no paragraphs.
BackIntoEmpty ==
    /\ plast.op = "prev_page"
    /\ book.some
    /\ plast.chapter.some
    /\ plast.progress.start = Progress(0, 0)
    /\ plast.chapter_idx > 0
    /\ book_chapter(book, plast.chapter_idx - 1).some
    /\ paragraphs_len(book_chapter(book, plast.chapter_idx - 1).paragraphs) = 0

\* C37: a prev_page from the first page of a chapter into a chapter without
\* paragraphs returns, with that chapter loaded and a start that is not past
\* its paragraphs.
C37_EmptyPreviousChapter ==
    BackIntoEmpty =>
        /\ pstatus = "running"
        /\ chapter = book_chapter(book, plast.chapter_idx - 1)
        /\ progress.start.paragraph <= paragraphs_len(chapter.paragraphs)

C10_Witness ==
    /\ plast.op = "next_page" /\ plast.drawn /\ plast.chapter.some
    /\ plast.progress.end.paragraph = paragraphs_len(plast.chapter.paragraphs)
    /\ plast.progress.end.paragraph > 0
    /\ WayChapter
    /\ chapter.some

\* The top of line k of a page, counted from the top of the page: y_advance
\* for every line above it and para_spacing for every paragraph begun
\* between the first line and it.
RECURSIVE TopOf(_, _)
TopOf(lines, k) ==
    IF k = 1 THEN 0
    ELSE TopOf(lines, k - 1) + y_advance(font_size)
           + (lines[k].paragraph - lines[k - 1].paragraph) * (y_advance(font_size) \div 2)

\* The top the line at `end` would have below the lines placed.
TopOfNext(lines, end) ==
    IF lines = <<>> THEN 0
    ELSE TopOf(lines, Len(lines)) + y_advance(font_size)
           + (end.paragraph - lines[Len(lines)].paragraph) * (y_advance(font_size) \div 2)

\* C27: draw completes, and on the page it lays out every line placed has
\* its top within page_height and is drawn at that offset; when a line is
\* not placed its top is past page_height, progress.end is that line, and
\* every line placed comes before it.
C27_PlacedWhenTopFits ==
    plast.op = "draw" =>
        /\ pstatus = "running"
        /\ progress.end = plast.page.end
        /\ \A k \in 1..Len(plast.page.all_lines) :
               /\ plast.page.all_lines[k].y = TopOf(plast.page.all_lines, k)
               /\ TopOf(plast.page.all_lines, k) <= page_height(show_settings, display_size)
               /\ plast.page.broke =>
                      Greater(progress.end, Progress(plast.page.all_lines[k].paragraph,
                                                     plast.page.all_lines[k].line))
        /\ plast.page.broke =>
               TopOfNext(plast.page.all_lines, progress.end)
                   > page_height(show_settings, display_size)

(* ======================================================================= *)
(*              framebuffer: set_pixel; res/font: draw_glyph               *)
(* ======================================================================= *)

MaxGlyph == 3           \* width and height of the largest glyph

BUFFER_SIZE == (WIDTH * HEIGHT) \div 8

Rotations == {"Rotate0", "Rotate90", "Rotate180", "Rotate270"}
Modes == {"Bw", "Msb", "Lsb"}

\* Rotation::size
Rotation_size(r) == IF r \in {"Rotate0", "Rotate180"} THEN Landscape ELSE Portrait

\* A set_pixel that takes the logical pixel for the physical one.
Physical_unrotated(r, x, y) == [x |-> x, y |-> y]

\* set_pixel: the physical pixel of the logical pixel (x, y)
Physical(r, x, y) ==
    CASE r = "Rotate0" -> [x |-> x, y |-> y]
      [] r = "Rotate90" -> [x |-> y, y |-> HEIGHT - 1 - x]
      [] r = "Rotate180" -> [x |-> WIDTH - 1 - x, y |-> HEIGHT - 1 - y]
      [] r = "Rotate270" -> [x |-> WIDTH - 1 - y, y |-> x]

\* set_pixel: the index of the physical pixel (x, y)
PixelIndex_columns(x, y) == x * WIDTH + y
PixelIndex(x, y) == y * WIDTH + x

\* DisplayBuffers::set_pixel: the writes to the active buffer it makes (none
\* or one): the byte, the bit, the colour, and the logical pixel they are
\* made for.
set_pixel(r, x, y, color) ==
    LET Write(index) ==
            {[byte_index |-> index \div 8, bit_index |-> 7 - (index % 8), color |-> color,
              x |-> x, y |-> y]}
        At(p) == IF p.x < WIDTH /\ p.y < HEIGHT THEN Write(PixelIndex(p.x, p.y)) ELSE {}
    IN IF x < 0 \/ y < 0 \/ x >= Rotation_size(r).width \/ y >= Rotation_size(r).height
       THEN {}
       ELSE At(Physical(r, x, y))

\* Glyph::new, with the fields its accessors return
Glyph_new(codepoint, bitmap_index, x_advance, width, height, xmin, ymin) ==
    [codepoint |-> codepoint, bitmap_index |-> bitmap_index, x_advance |-> x_advance,
     width |-> width, height |-> height, xmin |-> xmin, ymin |-> ymin]

\* A FontDefinition: the glyphs in codepoint order and the three bitmaps.
Font ==
    [glyphs |-> << Glyph_new(65, 0, 10, 1, 1, 0, 0),
                   Glyph_new(66, 0, 12, MaxGlyph, MaxGlyph, -32, -32),
                   Glyph_new(67, 1, 12, MaxGlyph, MaxGlyph, 31, 31),
                   Glyph_new(68, 0, 9, 1, MaxGlyph, -1, 2),
                   Glyph_new(69, 1, 9, MaxGlyph, 1, 0, 0),
                   Glyph_new(70, 2, 5, 0, 0, 0, 0) >>,
     bitmap_bw |-> <<165, 90, 165, 90, 165, 90, 165, 90>>,
     bitmap_msb |-> <<90, 165, 90, 165, 90, 165, 90, 165>>,
     bitmap_lsb |-> <<255, 0, 255, 0, 255, 0, 255, 0>>]

Codepoints == {64, 65, 66, 67, 68, 69, 70, 71}
Offsets == {-70000, -30, -1, 0, 2, 33, 479, 480, 481, 799, 800, 801, 70000}

\* draw_glyph: Ok(x_advance) or Err, the writes to the framebuffer, and the
\* number of pixels passed over as out of bounds.
draw_glyph(font, codepoint, r, x_offset, y_offset, mode) ==
    LET found == {i \in 1..Len(font.glyphs) : font.glyphs[i].codepoint = codepoint}
        bitmap == CASE mode = "Bw" -> font.bitmap_bw
                    [] mode = "Msb" -> font.bitmap_msb
                    [] mode = "Lsb" -> font.bitmap_lsb
        Drawn(glyph) ==
            LET fb_x(x) == x_offset + glyph.xmin + x
                fb_y(y) == y_offset - glyph.height - glyph.ymin + y
                Out(x, y) ==
                    \/ fb_x(x) < 0 \/ fb_x(x) >= Rotation_size(r).width
                    \/ fb_y(y) < 0 \/ fb_y(y) >= Rotation_size(r).height
                pixel_on(x, y) ==
                    (bitmap[glyph.bitmap_index + (y * glyph.width + x) \div 8 + 1]
                        \div 2 ^ (7 - ((y * glyph.width + x) % 8))) % 2
                Pixel(x, y) ==
                    IF Out(x, y) THEN {}
                    ELSE IF mode = "Bw"
                    THEN IF pixel_on(x, y) = 0 THEN set_pixel(r, fb_x(x), fb_y(y), "Off") ELSE {}
                    ELSE IF pixel_on(x, y) # 0 THEN set_pixel(r, fb_x(x), fb_y(y), "On") ELSE {}
                cells == (0..glyph.width - 1) \X (0..glyph.height - 1)
            IN IF x_offset > Rotation_size(r).width \/ y_offset > Rotation_size(r).height
               THEN [ok |-> TRUE, x_advance |-> glyph.x_advance, writes |-> {}, skipped |-> 0]
               ELSE [ok |-> TRUE, x_advance |-> glyph.x_advance,
                     writes |-> UNION {Pixel(c[1], c[2]) : c \in cells},
                     skipped |-> Cardinality({c \in cells : Out(c[1], c[2])})]
    IN IF found = {} THEN [ok |-> FALSE, writes |-> {}, skipped |-> 0]
       ELSE Drawn(font.glyphs[CHOOSE i \in found : TRUE])

NoCall == [op |-> "none"]

\* DisplayBuffers::with_rotation
FbStart ==
    /\ rotation \in Rotations
    /\ fwrites = {}
    /\ fcall = NoCall
    /\ fstatus = "ready"

\* A draw_glyph call on the display buffers.  What it writes does not depend
\* on what the buffers hold, so one call is taken from every rotation.
FbDrawGlyph ==
    /\ fstatus = "ready"
    /\ \E codepoint \in Codepoints, x_offset \in Offsets, y_offset \in Offsets, mode \in Modes :
          LET Drawn(d) ==
                  /\ fwrites' = d.writes
                  /\ fcall' = [op |-> "draw_glyph", codepoint |-> codepoint,
                               x_offset |-> x_offset, y_offset |-> y_offset, mode |-> mode,
                               ok |-> d.ok, skipped |-> d.skipped]
          IN Drawn(draw_glyph(Font, codepoint, rotation, x_offset, y_offset, mode))
    /\ fstatus' = "drawn"
    /\ UNCHANGED rotation
    /\ UNCHANGED NotFb

(* ----------------------- the characters of a word ----------------------- *)

MaxChars == 2           \* characters of a word

\* Characters by code point: with a glyph ('A', 'F'), without one ('@'), and
\* two above U+FFFF, U+10040 and U+10041.
WordChars == {64, 65, 70, 65536 + 64, 65536 + 65}

\* `ch as u16`, as char_width and draw_layed_out_text cast a char.
as_u16(ch) == ch % 65536

\* FontDefinition::get_glyph: None, or the glyph.
get_glyph(font, codepoint) ==
    LET found == {i \in 1..Len(font.glyphs) : font.glyphs[i].codepoint = codepoint}
    IN IF found = {} THEN None ELSE Some(font.glyphs[CHOOSE i \in found : TRUE])

\* FontDefinition::codepoint_width
codepoint_width(font, codepoint) ==
    IF get_glyph(font, codepoint) = None THEN None
    ELSE Some(get_glyph(font, codepoint)[1].x_advance)

\* FontDefinition::char_width
char_width(font, ch) == codepoint_width(font, as_u16(ch))

\* FontDefinition::word_width, on the characters of the word
RECURSIVE chars_width(_, _)
chars_width(font, word) ==
    IF word = <<>> THEN 0
    ELSE ((IF char_width(font, Head(word)) = None THEN 0 ELSE char_width(font, Head(word))[1])
            + chars_width(font, Tail(word))) % 65536

\* The loop of draw_layed_out_text over the characters of a word: per
\* character, the writes of its draw_glyph call and what it adds to x_advance.
RECURSIVE draw_chars(_, _, _, _, _, _)
draw_chars(font, word, r, x_advance, y, mode) ==
    IF word = <<>> THEN <<>>
    ELSE LET Next(d) ==
                 <<[ch |-> Head(word), x |-> x_advance,
                    advance |-> IF d.ok THEN d.x_advance ELSE 0, writes |-> d.writes]>>
                   \o draw_chars(font, Tail(word), r,
                                 IF d.ok THEN (x_advance + d.x_advance) % 65536 ELSE x_advance,
                                 y, mode)
         IN Next(draw_glyph(font, as_u16(Head(word)), r, x_advance, y, mode))

\* One word measured by word_width and drawn by draw_layed_out_text.
FbDrawWord ==
    /\ fstatus = "ready"
    /\ \E word \in SeqsUpTo(WordChars, MaxChars) \ {<<>>}, x \in {0, 33}, y \in {33, 479},
          mode \in Modes :
          LET Drawn(per) ==
                  /\ fwrites' = UNION {per[i].writes : i \in 1..Len(per)}
                  /\ fcall' = [op |-> "draw_word", word |-> word, mode |-> mode,
                               width |-> chars_width(Font, word), chars |-> per]
          IN Drawn(draw_chars(Font, word, rotation, x, y, mode))
    /\ fstatus' = "drawn"
    /\ UNCHANGED rotation
    /\ UNCHANGED NotFb

(* ------------------------- calls of set_pixel --------------------------- *)

MaxPixels == 2          \* set_pixel calls per run

\* Coordinates of logical pixels: the corners of both extents, their
\* neighbours inside and outside, and the ends of a byte.
Coords == {-1, 0, 1, 7, 8, 479, 480, 799, 800}

\* Physical pixels by index: the first and the last, the ends of the first
\* byte and of the first row, and one inside.
Targets == {0, 7, 8, WIDTH - 1, WIDTH, 123456, WIDTH * HEIGHT - 1}

\* The logical pixel that a rotation takes to the physical pixel (px, py).
Logical(r, px, py) ==
    CASE r = "Rotate0" -> [x |-> px, y |-> py]
      [] r = "Rotate90" -> [x |-> HEIGHT - 1 - py, y |-> px]
      [] r = "Rotate180" -> [x |-> WIDTH - 1 - px, y |-> HEIGHT - 1 - py]
      [] r = "Rotate270" -> [x |-> py, y |-> WIDTH - 1 - px]

\* The calls made so far: the logical pixels of the extent asked for, and
\* the physical pixels aimed at.
PixelCalls(n, pixels, targets) ==
    [op |-> "set_pixel", n |-> n, pixels |-> pixels, targets |-> targets]

\* Display buffers under a rotation, nothing drawn.
PixelStart ==
    /\ rotation \in Rotations
    /\ fwrites = {}
    /\ fcall = PixelCalls(0, {}, {})
    /\ fstatus = "blank"

InExtent(r, x, y) ==
    0 <= x /\ x < Rotation_size(r).width /\ 0 <= y /\ y < Rotation_size(r).height

\* set_pixel(x, y, On) for a logical pixel in or around the extent.
FbSetPixel ==
    /\ fstatus = "blank"
    /\ fcall.n < MaxPixels
    /\ \E x \in Coords, y \in Coords :
          /\ fwrites' = fwrites \cup set_pixel(rotation, x, y, "On")
          /\ fcall' = PixelCalls(fcall.n + 1,
                                 IF InExtent(rotation, x, y)
                                 THEN fcall.pixels \cup {[x |-> x, y |-> y]}
                                 ELSE fcall.pixels,
                                 fcall.targets)
    /\ UNCHANGED <<rotation, fstatus>>
    /\ UNCHANGED NotFb

\* set_pixel(x, y, On) for the logical pixel that the rotation takes to a
\* given physical pixel.
FbSetPixelAt ==
    /\ fstatus = "blank"
    /\ fcall.n < MaxPixels
    /\ \E t \in Targets :
          LET At(l) ==
                  /\ fwrites' = fwrites \cup set_pixel(rotation, l.x, l.y, "On")
                  /\ fcall' = PixelCalls(fcall.n + 1,
                                         IF InExtent(rotation, l.x, l.y)
                                         THEN fcall.pixels \cup {l}
                                         ELSE fcall.pixels,
                                         fcall.targets \cup {t})
          IN At(Logical(rotation, t % WIDTH, t \div WIDTH))
    /\ UNCHANGED <<rotation, fstatus>>
    /\ UNCHANGED NotFb

FbParked ==
    /\ rotation = "Rotate0"
    /\ fwrites = {}
    /\ fcall = NoCall
    /\ fstatus = "parked"

(* -------------------------- framebuffer claims -------------------------- *)

\* C12: a draw_glyph call, at any offset and under any rotation, writes only
\* bytes of the WIDTH * HEIGHT / 8 bytes of the buffer, and only for pixels
\* inside the extent of the rotation: every other pixel is passed over.
C12_GlyphWritesInBounds ==
    \A w \in fwrites :
        /\ 0 <= w.byte_index /\ w.byte_index < BUFFER_SIZE
        /\ 0 <= w.bit_index /\ w.bit_index <= 7
        /\ 0 <= w.x /\ w.x < Rotation_size(rotation).width
        /\ 0 <= w.y /\ w.y < Rotation_size(rotation).height

C12_Witness ==
    /\ fcall.op = "draw_glyph"
    /\ rotation = "Rotate270"
    /\ fcall.x_offset < 0
    /\ fcall.skipped > 0
    /\ fwrites # {}

\* The characters of the font's glyph table.
InFont(ch) == \E i \in 1..Len(Font.glyphs) : Font.glyphs[i].codepoint = ch

\* The sum of the advances of the glyphs of the characters that have one.
RECURSIVE GlyphAdvances(_)
GlyphAdvances(word) ==
    IF word = <<>> THEN 0
    ELSE (IF InFont(Head(word))
          THEN Font.glyphs[CHOOSE i \in 1..Len(Font.glyphs) :
                               Font.glyphs[i].codepoint = Head(word)].x_advance
          ELSE 0) + GlyphAdvances(Tail(word))

\* C31: a character that is not in the glyph table, code points above
\* U+FFFF included, adds nothing to the width of its word, moves x_advance
\* by nothing and has no pixel written; the characters after it are drawn.
C31_MissingGlyphZeroAdvance ==
    fcall.op = "draw_word" =>
        /\ fcall.width = GlyphAdvances(fcall.word)
        /\ Len(fcall.chars) = Len(fcall.word)
        /\ \A i \in 1..Len(fcall.chars) :
               ~InFont(fcall.word[i]) =>
                   fcall.chars[i].advance = 0 /\ fcall.chars[i].writes = {}

\* The physical pixel a write changes, by index.
BitOf(w) == w.byte_index * 8 + (7 - w.bit_index)

\* C30: under each rotation set_pixel takes every logical pixel of the
\* rotated extent to one bit of the buffer, two different logical pixels to
\* two different bits, and some logical pixel of the extent to any given
\* bit of the buffer.
C30_RotationPermutation ==
    fcall.op = "set_pixel" =>
        /\ \A w \in fwrites :
               /\ 0 <= BitOf(w) /\ BitOf(w) < WIDTH * HEIGHT
               /\ [x |-> w.x, y |-> w.y] \in fcall.pixels
        /\ \A p \in fcall.pixels : \E w \in fwrites : w.x = p.x /\ w.y = p.y
        /\ \A v \in fwrites : \A w \in fwrites :
               BitOf(v) = BitOf(w) => (v.x = w.x /\ v.y = w.y)
        /\ \A t \in fcall.targets : \E w \in fwrites : BitOf(w) = t

\* Two pixels of the portrait extent, one of them the pixel that a quarter
\* turn takes to the last bit of the buffer.
C30_Witness ==
    /\ fcall.op = "set_pixel"
    /\ rotation = "Rotate90"
    /\ fcall.targets = {WIDTH * HEIGHT - 1}
    /\ Cardinality(fwrites) = 2
    /\ \E w \in fwrites : w.x = 479 /\ w.y = 799

(* ======================================================================= *)
(*               container/epub/spine: parse_body, BodyParser              *)
(* ======================================================================= *)

MaxBodyEvents == 4      \* events of a freely chosen body

\* Text is a sequence of atoms: " " is white space, any other atom is a
\* stretch of characters without white space.  A piece of current_run or of
\* a Run's text is an atom with the (bold, italic) pair in force when
\* push_text pushed it.
Piece(c, bold, italic) == [c |-> c, bold |-> bold, italic |-> italic]

\* The characters of a text of pieces.
Chars(text) == [k \in 1..Len(text) |-> text[k].c]

\* BodyParser::new
BodyParser_new ==
    [paragraphs |-> <<>>, runs |-> <<>>, alignment |-> None, indent |-> None,
     current_run |-> <<>>, bold |-> FALSE, italic |-> FALSE, depth |-> 0,
     has_trailing_space |-> FALSE, italic_depth |-> None, bold_depth |-> None]

\* BodyParser::style
FontStyle(bold, italic) ==
    CASE ~bold /\ ~italic -> "Regular"
      [] bold /\ ~italic  -> "Bold"
      [] ~bold /\ italic  -> "Italic"
      [] bold /\ italic   -> "BoldItalic"

Run(text, style, breaking) == [text |-> text, style |-> style, breaking |-> breaking]

\* BodyParser::flush_text
flush_text(p, breaking) ==
    IF p.current_run # <<>>
    THEN [p EXCEPT !.runs = Append(@, Run(p.current_run, FontStyle(p.bold, p.italic), breaking)),
                   !.current_run = <<>>]
    ELSE p

\* BodyParser::set_bold; the variant sets the flag without flushing.
set_bold_unflushed(p, bold) == [p EXCEPT !.bold = bold]
set_bold(p, bold) ==
    IF p.bold # bold THEN [flush_text(p, FALSE) EXCEPT !.bold = bold] ELSE p

\* BodyParser::set_italic
set_italic(p, italic) ==
    IF p.italic # italic THEN [flush_text(p, FALSE) EXCEPT !.italic = italic] ELSE p

\* BodyParser::break_line
break_line(p) == flush_text(p, TRUE)

\* trim_ascii_end of a text of pieces
RECURSIVE TrimPiecesEnd(_)
TrimPiecesEnd(text) ==
    IF text # <<>> /\ IsAsciiWs(text[Len(text)].c)
    THEN TrimPiecesEnd(SubSeq(text, 1, Len(text) - 1)) ELSE text

\* BodyParser::flush_run
flush_run(p) ==
    LET q == flush_text(p, FALSE)
        n == Len(q.runs)
        runs == [q.runs EXCEPT ![n].text = TrimPiecesEnd(@)]
    IN IF q.runs # <<>>
       THEN [q EXCEPT !.paragraphs = Append(@, [runs |-> runs, indent |-> q.indent,
                                                alignment |-> q.alignment]),
                      !.runs = <<>>, !.indent = None, !.alignment = None]
       ELSE q

\* BodyParser::into_paragraphs
into_paragraphs(p) == flush_run(p)

\* text.split_whitespace() folded into a String: the words, one space
\* between a word and the next.
RECURSIVE JoinWords(_)
JoinWords(text) ==
    LET t == TrimStart(text)
        rest == TrimStart(Tail(t))
    IN IF t = <<>> THEN <<>>
       ELSE IF Tail(t) # <<>> /\ IsAsciiWs(Head(Tail(t)))
       THEN IF rest = <<>> THEN <<Head(t)>> ELSE <<Head(t), " ">> \o JoinWords(rest)
       ELSE <<Head(t)>> \o JoinWords(Tail(t))

\* BodyParser::push_text
push_text(p, content) ==
    LET text == IF p.runs = <<>> /\ p.current_run = <<>> THEN TrimStart(content) ELSE content
        Pieces(cs) == [k \in 1..Len(cs) |-> Piece(cs[k], p.bold, p.italic)]
        leading == IF ~p.has_trailing_space /\ text # <<>> /\ IsAsciiWs(Head(text))
                   THEN <<" ">> ELSE <<>>
        trailing == text # <<>> /\ IsAsciiWs(text[Len(text)])
    IN [p EXCEPT !.has_trailing_space = trailing,
                 !.current_run = @ \o Pieces(leading \o JoinWords(text)
                                             \o IF trailing THEN <<" ">> ELSE <<>>)]

\* BodyParser::increase_depth
increase_depth(p) == [p EXCEPT !.depth = @ + 1]

\* BodyParser::decrease_depth
decrease_depth(p) ==
    LET d == [p EXCEPT !.depth = IF @ > 0 THEN @ - 1 ELSE @]
        i == IF d.italic_depth # None /\ d.depth < d.italic_depth[1]
             THEN [set_italic(d, FALSE) EXCEPT !.italic_depth = None] ELSE d
    IN IF i.bold_depth # None /\ i.depth < i.bold_depth[1]
       THEN [set_bold(i, FALSE) EXCEPT !.bold_depth = None] ELSE i

\* is_block_element, is_italic, is_bold, is_breaking of parse_body
is_block_element(name) == name \in {"h1", "h2", "h3", "h4", "h5", "h6", "p", "li"}
is_italic(name) == name \in {"i", "em"}
is_bold(name) == name \in {"h1", "h2", "h3", "h4", "h5", "h6", "b"}
is_breaking(name) == name \in {"br", "tr"}

\* The style of a start element: the rule of its style attribute, then the
\* inline stylesheet, then the external stylesheet if there is one; the
\* variant adds them in the opposite order.
resolve_extern_first(inline_style, inline_rule, extern_rule) ==
    add(add(extern_rule, inline_rule), inline_style)
resolve(inline_style, inline_rule, extern_rule) ==
    add(add(inline_style, inline_rule), extern_rule)

\* The three rules of a start element with the given name, class attribute
\* and style attribute (it has no id).
Layers(sheets, name, classes, inline_style) ==
    [inline_style |-> inline_style,
     inline_rule |-> get(sheets.inline, name, None, classes),
     extern_rule |-> IF sheets.extern # None THEN get(sheets.extern[1], name, None, classes)
                     ELSE Rule_default]

\* parse_body, the arm of StartElement
StartElement(p, name, style) ==
    LET blocked == IF is_block_element(name) THEN flush_run(p) ELSE p
        deeper == increase_depth(blocked)
        named == IF is_bold(name) THEN set_bold(deeper, TRUE)
                 ELSE IF is_italic(name) THEN set_italic(deeper, TRUE)
                 ELSE IF is_breaking(name) THEN break_line(deeper)
                 ELSE deeper
        italiced == IF style.italic # None
                    THEN [set_italic(named, style.italic[1]) EXCEPT
                              !.italic_depth = Some(named.depth)]
                    ELSE named
        bolded == IF style.bold # None
                  THEN [set_bold(italiced, style.bold[1]) EXCEPT
                            !.bold_depth = Some(italiced.depth)]
                  ELSE italiced
    IN [bolded EXCEPT !.alignment = IF style.alignment # None THEN style.alignment ELSE @,
                      !.indent = IF style.indent # None THEN style.indent ELSE @]

\* parse_body, the arm of EndElement
EndElement(p, name) ==
    LET blocked == IF is_block_element(name) THEN flush_run(p) ELSE p
        cleared == IF blocked.bold_depth = None /\ is_bold(name) THEN set_bold(blocked, FALSE)
                   ELSE IF blocked.italic_depth = None /\ is_italic(name)
                   THEN set_italic(blocked, FALSE)
                   ELSE blocked
    IN decrease_depth(cleared)

(* ----------------------- parse_body: the state machine ------------------ *)

StartEv(name, classes, inline_style) ==
    [ty |-> "Start", name |-> name, classes |-> classes, inline_style |-> inline_style]
EndEv(name) == [ty |-> "End", name |-> name]
TextEv(content) == [ty |-> "Text", content |-> content]

Decl(alignment, italic, bold, indent) ==
    [alignment |-> alignment, italic |-> italic, bold |-> bold, indent |-> indent]

\* `.c { font-weight: bold; text-align: right; text-indent: 2 }
\*  p { font-style: normal }` in a <style> of the head
InlineSheet ==
    << <<Sel(None, None, <<"c">>), Decl(Some("Right"), None, Some(TRUE), Some(2))>>,
       <<Sel(Some("p"), None, <<>>), Decl(None, Some(FALSE), None, None)>> >>

\* `.c { font-weight: normal; font-style: italic; text-align: left; text-indent: 3 }
\*  p { font-style: italic; text-indent: 3 }` in the stylesheet of the book
ExternSheet ==
    << <<Sel(None, None, <<"c">>), Decl(Some("Left"), Some(TRUE), Some(FALSE), Some(3))>>,
       <<Sel(Some("p"), None, <<>>), Decl(None, Some(TRUE), None, Some(3))>> >>

\* The style attributes of the freely chosen elements: none,
\* `font-weight: bold`, and
\* `font-weight: normal; font-style: italic; text-align: center; text-indent: 1`.
InlineStyles ==
    {Rule_default, Decl(None, None, Some(TRUE), None),
     Decl(Some("Center"), Some(TRUE), Some(FALSE), Some(1))}

FreeEvents ==
    {StartEv("span", classes, inline_style) :
        classes \in {<<>>, <<"c">>}, inline_style \in InlineStyles}
    \cup {StartEv("p", <<>>, inline_style) : inline_style \in InlineStyles}
    \cup {StartEv("b", <<>>, Rule_default), StartEv("i", <<>>, Rule_default)}
    \cup {TextEv(<<"a">>), TextEv(<<" ", "a", " ">>)}
    \cup (IF bopen # <<>> THEN {EndEv(bopen[Len(bopen)].name)} ELSE {})

\* The body of the test inline_styles.
InlineStylesBody ==
    << StartEv("p", <<>>, Rule_default), TextEv(<<"Text", " ", "with", " ">>),
       StartEv("i", <<>>, Rule_default), TextEv(<<"Inline">>), EndEv("i"),
       TextEv(<<" ", "styles", " ">>),
       StartEv("b", <<>>, Rule_default), TextEv(<<"bold">>), EndEv("b"),
       TextEv(<<",", " ">>),
       StartEv("em", <<>>, Rule_default), TextEv(<<"emphasized">>), EndEv("em"),
       TextEv(<<" ", "or", " ">>),
       StartEv("i", <<>>, Rule_default), TextEv(<<"italic">>), EndEv("i"),
       EndEv("p") >>

\* The body of the test test_whitespace: line ends and indentation are
\* white space like any other.
WhitespaceBody ==
    << StartEv("p", <<>>, Rule_default),
       TextEv(<<" ", "Text", " ", " ", " ", " ", "with", " ">>),
       StartEv("span", <<>>, Rule_default), TextEv(<<" ", "White", " ">>), EndEv("span"),
       TextEv(<<" ", "space">>),
       StartEv("span", <<>>, Rule_default), TextEv(<<" ", "before">>), EndEv("span"),
       TextEv(<<" ", "and", " ">>),
       StartEv("span", <<>>, Rule_default), TextEv(<<"after">>), EndEv("span"),
       TextEv(<<"Spans", " ", " ", " ">>),
       EndEv("p") >>

\* What the test expects of it: the text and the style of each run.
InlineStylesRuns ==
    << <<<<"Text", " ", "with", " ">>, "Regular">>, <<<<"Inline">>, "Italic">>,
       <<<<" ", "styles", " ">>, "Regular">>, <<<<"bold">>, "Bold">>,
       <<<<",", " ">>, "Regular">>, <<<<"emphasized">>, "Italic">>,
       <<<<" ", "or", " ">>, "Regular">>, <<<<"italic">>, "Italic">> >>

\* parse, at the StartElement of body: the parser is new; the stylesheets are
\* those of the head and of the book.
BodyStart ==
    /\ \/ /\ bdoc = <<>>
          /\ bsheets \in {[inline |-> InlineSheet, extern |-> Some(ExternSheet)],
                          [inline |-> InlineSheet, extern |-> None]}
       \/ /\ bdoc \in {InlineStylesBody, WhitespaceBody}
          /\ bsheets = [inline |-> <<>>, extern |-> None]
    /\ bp = BodyParser_new
    /\ bopen = <<>>
    /\ bat = 0
    /\ blast = [ty |-> "None"]
    /\ bsrc = [now |-> <<>>, done |-> <<>>]
    /\ bstatus = "running"

\* The events the reader may return next.
Upcoming ==
    IF bdoc = <<>> THEN (IF bat < MaxBodyEvents THEN FreeEvents ELSE {})
    ELSE IF bat < Len(bdoc) THEN {bdoc[bat + 1]} ELSE {}

\* The text between the last event and a tag that next_event passes over
\* without an event, because nothing is left of it when it is trimmed: none,
\* or white space between two tags.
Skipped ==
    {w \in {<<>>, <<" ">>} :
        /\ trim_ascii(w) = <<>>
        /\ w # <<>> => (bdoc = <<>> /\ blast.ty \in {"Start", "End"})}

\* The character data after an event that added chars to it and took the
\* parser from p to q; block: the event flushed the paragraph.
Source(src, chars, p, q, block) ==
    IF Len(q.paragraphs) > Len(p.paragraphs)
    THEN [now |-> <<>>, done |-> Append(src.done, src.now \o chars)]
    ELSE IF block THEN [src EXCEPT !.now = <<>>]
    ELSE [src EXCEPT !.now = @ \o chars]

\* One turn of the loop of parse_body, a StartElement.
BodyStartElement ==
    /\ bstatus = "running"
    /\ \E e \in {u \in Upcoming : u.ty = "Start"}, w \in Skipped :
          LET l == Layers(bsheets, e.name, e.classes, e.inline_style)
              style == resolve(l.inline_style, l.inline_rule, l.extern_rule)
          IN /\ bp' = StartElement(bp, e.name, style)
             /\ bopen' = Append(bopen, [name |-> e.name, style |-> style])
             /\ blast' = [ty |-> "Start", name |-> e.name, layers |-> l, style |-> style]
             /\ bsrc' = Source(bsrc, w, bp, bp', is_block_element(e.name))
    /\ bat' = bat + 1
    /\ UNCHANGED <<bsheets, bdoc, bstatus, NotBody>>

\* One turn of the loop, an EndElement other than that of body.
BodyEndElement ==
    /\ bstatus = "running"
    /\ \E e \in {u \in Upcoming : u.ty = "End"}, w \in Skipped :
          /\ bp' = EndElement(bp, e.name)
          /\ bopen' = SubSeq(bopen, 1, Len(bopen) - 1)
          /\ blast' = [ty |-> "End", name |-> e.name, style |-> bopen[Len(bopen)].style]
          /\ bsrc' = Source(bsrc, w, bp, bp', is_block_element(e.name))
    /\ bat' = bat + 1
    /\ UNCHANGED <<bsheets, bdoc, bstatus, NotBody>>

\* One turn of the loop, a Text.
BodyText ==
    /\ bstatus = "running"
    /\ \E e \in {u \in Upcoming : u.ty = "Text"} :
          /\ bp' = push_text(bp, e.content)
          /\ blast' = [ty |-> "Text", content |-> e.content]
          /\ bsrc' = Source(bsrc, e.content, bp, bp', FALSE)
    /\ bat' = bat + 1
    /\ UNCHANGED <<bsheets, bdoc, bopen, bstatus, NotBody>>

\* The EndElement of body, or EndOfFile: into_paragraphs.
BodyFinish ==
    /\ bstatus = "running"
    /\ bdoc # <<>> => bat = Len(bdoc)
    /\ bp' = into_paragraphs(bp)
    /\ blast' = [ty |-> "Finish"]
    /\ bsrc' = Source(bsrc, <<>>, bp, bp', TRUE)
    /\ bstatus' = "done"
    /\ UNCHANGED <<bsheets, bdoc, bopen, bat, NotBody>>

BodyParked ==
    /\ bsheets = [inline |-> <<>>, extern |-> None]
    /\ bp = BodyParser_new
    /\ bopen = <<>>
    /\ bdoc = <<>>
    /\ bat = 0
    /\ blast = [ty |-> "None"]
    /\ bsrc = [now |-> <<>>, done |-> <<>>]
    /\ bstatus = "parked"

(* --------------------------- parse_body: claims ------------------------- *)

\* The open elements whose resolved style sets flag f, by their place in bopen.
Styled(f) == {k \in 1..Len(bopen) : bopen[k].style[f] # None}

\* An element that sets flag f by its name.
Semantic(f, name) == IF f = "bold" THEN is_bold(name) ELSE is_italic(name)

\* C13: while an element whose resolved style sets bold or italic is open,
\* text pushed inside it (and not inside a deeper element that sets the flag
\* by its name or style) finds the flag at the value that style gave it, also
\* after a descendant that set the same flag through its own style has
\* closed; and when the last open element that styled the flag closes, the
\* flag is cleared.
C13_StyledFlagScoped ==
    \A f \in {"bold", "italic"} :
        /\ (/\ blast.ty = "Text"
            /\ Styled(f) # {}
            /\ \A k \in (Max(Styled(f)) + 1)..Len(bopen) : ~Semantic(f, bopen[k].name))
               => bp[f] = bopen[Max(Styled(f))].style[f][1]
        /\ (blast.ty = "End" /\ blast.style[f] # None /\ Styled(f) = {})
               => bp[f] = FALSE

\* Every piece of the text is of the style the run is set in.
Homogeneous(run) ==
    \A k \in 1..Len(run.text) : FontStyle(run.text[k].bold, run.text[k].italic) = run.style

\* C14: every Run the body parser emits has the style of the flag pair that
\* was in force when each piece of its text was pushed, and so has the run
\* still being collected; the body of the test inline_styles gives one
\* paragraph of the eight non-breaking runs the test expects, split at the
\* tags, of styles Regular, Italic, Regular, Bold, Regular, Italic, Regular,
\* Italic.
C14_RunsHomogeneous ==
    /\ Homogeneous(Run(bp.current_run, FontStyle(bp.bold, bp.italic), FALSE))
    /\ \A k \in 1..Len(bp.runs) : Homogeneous(bp.runs[k])
    /\ \A i \in 1..Len(bp.paragraphs) :
           \A k \in 1..Len(bp.paragraphs[i].runs) : Homogeneous(bp.paragraphs[i].runs[k])
    /\ (bdoc = InlineStylesBody /\ bstatus = "done") =>
           /\ Len(bp.paragraphs) = 1
           /\ [k \in 1..Len(bp.paragraphs[1].runs) |->
                  <<Chars(bp.paragraphs[1].runs[k].text), bp.paragraphs[1].runs[k].style>>]
                 = InlineStylesRuns
           /\ \A k \in 1..Len(bp.paragraphs[1].runs) : ~bp.paragraphs[1].runs[k].breaking

C14_Witness ==
    /\ bdoc = InlineStylesBody /\ bstatus = "done"
    /\ Len(bp.paragraphs) = 1
    /\ Len(bp.paragraphs[1].runs) = 8
    /\ bp.paragraphs[1].runs[4].style = "Bold"

\* The text of a paragraph: that of its runs, one after the other.
ParagraphText(par) == Chars(Flat([k \in 1..Len(par.runs) |-> par.runs[k].text]))

\* C22: the text of every paragraph pushed has no white space at its start
\* or at its end and no two spaces in a row, and it is the character data of
\* the paragraph in the document with every stretch of white space, also one
\* next to a tag, as one space.
C22_WhitespaceCollapsed ==
    \A i \in 1..Len(bp.paragraphs) :
        LET t == ParagraphText(bp.paragraphs[i])
        IN /\ t # <<>> => (~IsAsciiWs(t[1]) /\ ~IsAsciiWs(t[Len(t)]))
           /\ \A k \in 1..(Len(t) - 1) : ~(IsAsciiWs(t[k]) /\ IsAsciiWs(t[k + 1]))
           /\ t = JoinWords(bsrc.done[i])

\* C20: each property of the style a start element resolves to is that of
\* its style attribute if the attribute sets it, otherwise that of the inline
\* stylesheet if it sets it, otherwise that of the external stylesheet.
C20_StyleLayers ==
    blast.ty = "Start" =>
        \A f \in {"alignment", "italic", "bold", "indent"} :
            blast.style[f] =
                IF blast.layers.inline_style[f] # None THEN blast.layers.inline_style[f]
                ELSE IF blast.layers.inline_rule[f] # None THEN blast.layers.inline_rule[f]
                ELSE blast.layers.extern_rule[f]

\* An element that is still open set property f to the pending value v.
SetByOpen(f, v) == \E k \in 1..Len(bopen) : bopen[k].style[f] = v

\* C39: the pending alignment and indent belong to the paragraph being
\* built: while no run of it has been collected, a pending value is one that
\* an element still open has set, not one left behind by an element that
\* closed without contributing a run.
C39_PendingStyleScoped ==
    (bstatus = "running" /\ bp.runs = <<>> /\ bp.current_run = <<>>) =>
        \A f \in {"alignment", "indent"} : bp[f] # None => SetByOpen(f, bp[f])

C20_Witness ==
    /\ blast.ty = "Start"
    /\ blast.layers.inline_style.bold = Some(FALSE)
    /\ blast.layers.inline_rule.bold = Some(TRUE)
    /\ blast.layers.inline_rule.italic = None
    /\ blast.layers.extern_rule.italic = Some(TRUE)
    /\ blast.layers.extern_rule.indent = Some(3)
    /\ blast.style.bold = Some(FALSE)
    /\ bp.bold_depth = Some(bp.depth)

(* ======================================================================= *)
(*                  container/epub/ncx: parse_nav_map                      *)
(* ======================================================================= *)

MaxPoints == 3          \* navPoint elements of a nav map

\* The events the parser hands to parse_nav_map.
NavEv(ty, name) == [ty |-> ty, name |-> name]

\* The src of a content element, character by character ("#" apart).
Srcs == { <<"a">>, <<"b", "#", "x">>, <<"m">> }

\* The nesting shapes of n navPoints: the nesting level of each navPoint in
\* document order, the first at level 1 and none more than one level below
\* the navPoint before it.
Shapes(n) ==
    {s \in [1..n -> 1..MaxPoints] :
        \A i \in 1..n : IF i = 1 THEN s[i] = 1 ELSE s[i] <= s[i - 1] + 1}

\* A nav map as it is written: the shape, the src of the content of each
\* navPoint, whether a comment stands before each navPoint, and whether the
\* file goes on to </navMap>.
NavMaps ==
    UNION {[depths : Shapes(n), srcs : [1..n -> Srcs], comments : BOOLEAN, closed : BOOLEAN] :
              n \in 0..MaxPoints}

\* k navPoint end tags.
RECURSIVE Closes(_)
Closes(k) == IF k <= 0 THEN <<>> ELSE <<NavEv("End", "navPoint")>> \o Closes(k - 1)

\* The events of navPoint i up to its content element: navLabel with the
\* text i, then content, which is self-closing.
PointHead(m, i) ==
    (IF m.comments THEN <<NavEv("Comment", "")>> ELSE <<>>)
      \o << NavEv("Start", "navPoint"),
            NavEv("Start", "navLabel"), NavEv("Start", "text"),
            [ty |-> "Text", name |-> "", content |-> i],
            NavEv("End", "text"), NavEv("End", "navLabel"),
            [ty |-> "Start", name |-> "content", src |-> m.srcs[i]],
            NavEv("End", "content") >>

\* The events after <navMap>, from navPoint i on.
RECURSIVE NavEvents(_, _)
NavEvents(m, i) ==
    IF i > Len(m.depths)
    THEN Closes(IF i = 1 THEN 0 ELSE m.depths[i - 1])
           \o (IF m.closed THEN <<NavEv("End", "navMap")>> ELSE <<>>)
    ELSE Closes(IF i = 1 THEN 0 ELSE m.depths[i - 1] - m.depths[i] + 1)
           \o PointHead(m, i) \o NavEvents(m, i + 1)

\* FileResolver::content_idx on the entries a, b of the archive.
content_idx(path) ==
    CASE path = <<"a">> -> Some(0)
      [] path = <<"b">> -> Some(1)
      [] OTHER -> None

\* src.splitn(2, '#'): the part before the first '#', and the part after it
\* if there is one.
SplitAnchor(src) ==
    LET at == {k \in 1..Len(src) : src[k] = "#"}
    IN IF at = {} THEN [file_path |-> src, anchor |-> None]
       ELSE [file_path |-> SubSeq(src, 1, Min(at) - 1),
             anchor |-> Some(SubSeq(src, Min(at) + 1, Len(src)))]

NavPoint(label, file_idx, anchor, depth) ==
    [label |-> label, file_idx |-> file_idx, anchor |-> anchor, depth |-> depth]

\* The locals of parse_nav_map before its loop.
NavLocals ==
    [nav_points |-> <<>>, label |-> None, file_idx |-> None, anchor |-> None, depth |-> 0]

\* flush of parse_nav_map: label and file_idx are taken in any case, anchor
\* only when a point is pushed.
nav_flush(p, depth) ==
    IF p.label # None /\ p.file_idx # None
    THEN [p EXCEPT !.nav_points = Append(@, NavPoint(p.label[1], p.file_idx[1], p.anchor, depth)),
                   !.label = None, !.file_idx = None, !.anchor = None]
    ELSE [p EXCEPT !.label = None, !.file_idx = None]

\* StartElement "navPoint"; the variant counts the level before it flushes.
navPoint_start_counted(p) == nav_flush([p EXCEPT !.depth = @ + 1], p.depth + 1)
navPoint_start(p) == [nav_flush(p, p.depth) EXCEPT !.depth = @ + 1]

\* StartElement "content"
content_start(p, src) ==
    [p EXCEPT !.file_idx = content_idx(SplitAnchor(src).file_path),
              !.anchor = SplitAnchor(src).anchor]

\* The four events that must follow StartElement "navLabel".
IsLabel(evs) ==
    /\ Len(evs) >= 4
    /\ evs[1].ty = "Start" /\ evs[1].name = "text"
    /\ evs[2].ty = "Text"
    /\ evs[3].ty = "End" /\ evs[3].name = "text"
    /\ evs[4].ty = "End" /\ evs[4].name = "navLabel"

NavStart ==
    /\ nin \in NavMaps
    /\ ndoc = NavEvents(nin, 1)
    /\ np = NavLocals
    /\ nstatus = "running"

\* One turn of the loop on a StartElement.
NavStartElement ==
    /\ nstatus = "running"
    /\ ndoc # <<>>
    /\ Head(ndoc).ty = "Start"
    /\ CASE Head(ndoc).name = "navPoint" ->
              /\ np' = navPoint_start(np)
              /\ ndoc' = Tail(ndoc)
              /\ UNCHANGED nstatus
         [] Head(ndoc).name = "content" ->
              /\ np' = content_start(np, Head(ndoc).src)
              /\ ndoc' = Tail(ndoc)
              /\ UNCHANGED nstatus
         [] Head(ndoc).name = "navLabel" ->
              IF IsLabel(Tail(ndoc))
              THEN /\ np' = [np EXCEPT !.label = Some(ndoc[3].content)]
                   /\ ndoc' = SubSeq(ndoc, 6, Len(ndoc))
                   /\ UNCHANGED nstatus
              ELSE /\ nstatus' = "InvalidData"
                   /\ UNCHANGED <<np, ndoc>>
         [] OTHER ->
              /\ ndoc' = Tail(ndoc)
              /\ UNCHANGED <<np, nstatus>>
    /\ UNCHANGED nin
    /\ UNCHANGED NotNav

\* One turn of the loop on an EndElement.  `depth -= 1` at depth 0 needs an
\* end tag without its start tag; the reader reports none.
NavEndElement ==
    /\ nstatus = "running"
    /\ ndoc # <<>>
    /\ Head(ndoc).ty = "End"
    /\ CASE Head(ndoc).name = "navPoint" ->
              /\ np' = [nav_flush(np, np.depth) EXCEPT !.depth = @ - 1]
              /\ nstatus' = IF np.depth = 0 THEN "panic" ELSE nstatus
         [] Head(ndoc).name = "navMap" ->
              /\ nstatus' = "done"
              /\ UNCHANGED np
         [] OTHER -> UNCHANGED <<np, nstatus>>
    /\ ndoc' = Tail(ndoc)
    /\ UNCHANGED nin
    /\ UNCHANGED NotNav

\* One turn of the loop on any other event.
NavOther ==
    /\ nstatus = "running"
    /\ ndoc # <<>>
    /\ Head(ndoc).ty \notin {"Start", "End"}
    /\ ndoc' = Tail(ndoc)
    /\ UNCHANGED <<nin, np, nstatus>>
    /\ UNCHANGED NotNav

\* EndOfFile ends the loop as </navMap> does.
NavEndOfFile ==
    /\ nstatus = "running"
    /\ ndoc = <<>>
    /\ nstatus' = "done"
    /\ UNCHANGED <<nin, ndoc, np>>
    /\ UNCHANGED NotNav

NavParked ==
    /\ nin = <<>> /\ ndoc = <<>> /\ np = NavLocals /\ nstatus = "parked"

(* ------------------------------ ncx claims ------------------------------ *)

\* The navPoints of a nav map in document order, from navPoint i on: the
\* text of its own navLabel, the entry and anchor of its own content, its
\* nesting level.  A navPoint whose content names no entry has no place in
\* the table of contents.
RECURSIVE Preorder(_, _)
Preorder(m, i) ==
    IF i > Len(m.depths) THEN <<>>
    ELSE (IF content_idx(SplitAnchor(m.srcs[i]).file_path) = None THEN <<>>
          ELSE <<NavPoint(i, content_idx(SplitAnchor(m.srcs[i]).file_path)[1],
                          SplitAnchor(m.srcs[i]).anchor, m.depths[i])>>)
           \o Preorder(m, i + 1)

\* C32: the nav points parse_nav_map returns are the navPoints of the map in
\* document order, each with its own label and content target and with its
\* nesting level as depth, for every nesting shape; while it reads, the
\* points it has are the first of them.
C32_NavMapPreorder ==
    /\ nstatus \in {"running", "done"} =>
          /\ Len(np.nav_points) <= Len(Preorder(nin, 1))
          /\ np.nav_points = SubSeq(Preorder(nin, 1), 1, Len(np.nav_points))
    /\ nstatus = "done" => np.nav_points = Preorder(nin, 1)
    /\ nstatus \in {"parked", "running", "done"}

\* A navPoint with a child and, after them, a navPoint at the top level,
\* all three collected.
C32_Witness ==
    /\ nstatus = "done"
    /\ Len(np.nav_points) = 3
    /\ np.nav_points[1].depth = 1 /\ np.nav_points[2].depth = 2 /\ np.nav_points[3].depth = 1
    /\ np.nav_points[2].anchor = Some(<<"x">>)

(* ======================================================================= *)
(*                            specifications                               *)
(* ======================================================================= *)

WinInit == WinStart /\ CssParked /\ ZipParked /\ LayoutParked /\ ReaderParked /\ FbParked /\ BodyParked /\ NavParked
WinNext == WinAdvance \/ WinEnsure \/ WinTryFind \/ WinTryFindStart \/ WinNextEvent
SpecWindow == WinInit /\ [][WinNext]_vars

XmlInit == XmlStart /\ CssParked /\ ZipParked /\ LayoutParked /\ ReaderParked /\ FbParked /\ BodyParked /\ NavParked
XmlNext == XmlNextEvent

\* The walk calls next_event again for as long as the last call returned an
\* event: weak fairness of XmlNextEvent, the loop's condition written out
\* for ENABLED.
AnyCapInit == AnyCapStart /\ CssParked /\ ZipParked /\ LayoutParked /\ ReaderParked /\ FbParked /\ BodyParked /\ NavParked
AnyCapNext == XmlNextEvent
AnyCapFair == []<>(xstatus # "running") \/ []<><<XmlNextEvent>>_vars
SpecAnyCap == AnyCapInit /\ [][AnyCapNext]_vars /\ AnyCapFair
SpecXml == XmlInit /\ [][XmlNext]_vars

CssInit == CssStart /\ XmlParked /\ ZipParked /\ LayoutParked /\ ReaderParked /\ FbParked /\ BodyParked /\ NavParked
CssNext == CssGet
SpecCss == CssInit /\ [][CssNext]_vars

ZipInit == ZipStart /\ XmlParked /\ CssParked /\ LayoutParked /\ ReaderParked /\ FbParked /\ BodyParked /\ NavParked
ZipNext == ZipParse \/ ZipOpen \/ ZipRead
SpecZip == ZipInit /\ [][ZipNext]_vars

\* Seeks are tried on archives whose entries are shorter than the window.
SeekInit == ZipInit /\ \A i \in 1..Len(zar.files) : zar.files[i].usize < DictSize
SeekNext == ZipNext \/ ZipSeek
SpecSeek == SeekInit /\ [][SeekNext]_vars

TruncatedInit == ZipInit
TruncatedNext == ZipNext \/ ZipTruncate
SpecTruncated == TruncatedInit /\ [][TruncatedNext]_vars

\* parse_zip on sources that need not be archives.
EocdInit == EocdStart /\ XmlParked /\ CssParked /\ LayoutParked /\ ReaderParked /\ FbParked /\ BodyParked /\ NavParked
EocdNext == ZipParse
SpecEocd == EocdInit /\ [][EocdNext]_vars

LayoutInit == LayoutStart /\ XmlParked /\ CssParked /\ ZipParked /\ ReaderParked /\ FbParked /\ BodyParked /\ NavParked
LayoutNext == LayoutText
SpecLayout == LayoutInit /\ [][LayoutNext]_vars

ReaderInit == ReaderStart /\ XmlParked /\ CssParked /\ ZipParked /\ LayoutParked /\ FbParked /\ BodyParked /\ NavParked
ReaderNext == ReaderDraw \/ ReaderNextPage \/ ReaderUpdate \/ ReaderUpdateSettings
SpecReader == ReaderInit /\ [][ReaderNext]_vars

\* The reader with paging in both directions.
PagingInit == ReaderStart /\ XmlParked /\ CssParked /\ ZipParked /\ LayoutParked /\ FbParked /\ BodyParked /\ NavParked
PagingNext ==
    ReaderDraw \/ ReaderNextPage \/ ReaderPrevPage \/ ReaderUpdate \/ ReaderUpdateSettings
SpecPaging == PagingInit /\ [][PagingNext]_vars

FbInit ==
    FbStart /\ XmlParked /\ CssParked /\ ZipParked /\ LayoutParked /\ ReaderParked /\ BodyParked /\ NavParked
FbNext == FbDrawGlyph
SpecFb == FbInit /\ [][FbNext]_vars

\* Words measured and drawn character by character.
WordInit ==
    FbStart /\ XmlParked /\ CssParked /\ ZipParked /\ LayoutParked /\ ReaderParked /\ BodyParked /\ NavParked
WordNext == FbDrawWord
SpecWord == WordInit /\ [][WordNext]_vars

\* set_pixel calls on display buffers under one rotation.
PixelInit ==
    PixelStart /\ XmlParked /\ CssParked /\ ZipParked /\ LayoutParked /\ ReaderParked /\ BodyParked /\ NavParked
PixelNext == FbSetPixel \/ FbSetPixelAt
SpecPixel == PixelInit /\ [][PixelNext]_vars

BodyInit ==
    BodyStart /\ XmlParked /\ CssParked /\ ZipParked /\ LayoutParked /\ ReaderParked /\ FbParked /\ NavParked
BodyNext == BodyStartElement \/ BodyEndElement \/ BodyText \/ BodyFinish
SpecBody == BodyInit /\ [][BodyNext]_vars

RuleInit ==
    RuleStart /\ XmlParked /\ ZipParked /\ LayoutParked /\ ReaderParked /\ FbParked /\ BodyParked /\ NavParked
RuleNext == RuleAdd
SpecRule == RuleInit /\ [][RuleNext]_vars

JustifyInit ==
    JustifyStart /\ XmlParked /\ CssParked /\ ZipParked /\ ReaderParked /\ FbParked /\ BodyParked /\ NavParked
JustifyNext == JustifyCall
SpecJustify == JustifyInit /\ [][JustifyNext]_vars

\* parse_nav_map over the events of a nav map.
NavInit ==
    /\ NavStart
    /\ XmlParked /\ CssParked /\ ZipParked /\ LayoutParked /\ ReaderParked /\ FbParked
    /\ BodyParked
NavNext == NavStartElement \/ NavEndElement \/ NavOther \/ NavEndOfFile
SpecNav == NavInit /\ [][NavNext]_vars

====
